---- MODULE Spec2Model ----
(***************************************************************************)
(* Price aggregation service (PriceAggregationService) and its data        *)
(* collector (DataCollector).                                              *)
(*                                                                         *)
(* Numbers.  Prices and volumes are integers of an arbitrary unit; a       *)
(* volume of 0 stands for every falsy volume (0, undefined, null, NaN).    *)
(* Source weights are kept in tenths (1.0 = 10).  A confidence is kept in  *)
(* thousandths, a returned price in units of 1/PriceUnit.  A JavaScript    *)
(* number that may be NaN is a record [nan, v].  Time is in clock ticks;   *)
(* one call of a synchronous method reads one clock value.                 *)
(***************************************************************************)
EXTENDS Integers, Sequences, FiniteSets, TLC

VARIABLES
  config,        \* PriceAggregationService.config
  sourceWeights, \* PriceAggregationService.sourceWeights, Map source -> weight
  now,           \* Date.now()
  priceHistory,  \* Map token -> array of normalised observations
  volumeHistory, \* Map token -> array of volume entries
  stats,         \* PriceAggregationService.stats
  result,        \* what the call of the last step returned or threw
  lastCall,      \* the last step: the call made and its arguments
  calls,         \* the number of calculation calls made so far
  pushed,        \* the number of observations pushed so far
  isCollecting,  \* DataCollector.isCollecting
  collectInterval, \* DataCollector.collectInterval, the interval timer
  ticks,         \* the collectAllData runs started so far
  requests,      \* the collect...Data calls made so far, each with its makeRequest
  collectorStats, \* DataCollector.stats
  tokenMappings, \* Object.keys(DataCollector.tokenMappings), in their order
  filterCall,    \* the outlier filter called last, directly, and on what
  filterData,    \* the array that call was given
  filterResult   \* the array that call returned

serviceVars == <<config, sourceWeights, now, priceHistory, volumeHistory, stats, result, lastCall, calls, pushed>>

collectorVars == <<isCollecting, collectInterval, ticks, requests, collectorStats, tokenMappings>>

filterVars == <<filterCall, filterData, filterResult>>

vars == <<config, sourceWeights, now, priceHistory, volumeHistory, stats, result, lastCall, calls, pushed,
          isCollecting, collectInterval, ticks, requests, collectorStats, tokenMappings,
          filterCall, filterData, filterResult>>

-----------------------------------------------------------------------------
(* Bounds of the model *)

MaxInserts == 3
MaxAggInserts == 4
MaxCalls == 1
MaxAdvance == 2
MaxOutlierLen == 6

StartTime == 10

Tokens == {"SOL/USDC"}

-----------------------------------------------------------------------------
(* Small arithmetic *)

Min(a, b) == IF a <= b THEN a ELSE b

Max(a, b) == IF a >= b THEN a ELSE b

Abs(a) == IF a < 0 THEN -a ELSE a

RECURSIVE SeqSum(_)
SeqSum(s) == IF s = <<>> THEN 0 ELSE Head(s) + SeqSum(Tail(s))

SeqMin(s) == CHOOSE x \in {s[i] : i \in DOMAIN s} : \A j \in DOMAIN s : x <= s[j]

SeqMax(s) == CHOOSE x \in {s[i] : i \in DOMAIN s} : \A j \in DOMAIN s : x >= s[j]

\* Array.prototype.filter: the elements that pass, in their order
RECURSIVE Filter(_, _)
Filter(s, keep) ==
  IF s = <<>> THEN <<>>
  ELSE IF keep[1] THEN <<Head(s)>> \o Filter(Tail(s), Tail(keep))
       ELSE Filter(Tail(s), Tail(keep))

\* the last k elements of s (all of s when it has no more than k)
LastN(s, k) == IF Len(s) <= k THEN s ELSE SubSeq(s, Len(s) - k + 1, Len(s))

\* a quotient that is always rounded past the next integer
RoundDivCeiling(a, b) == (a \div b) + 1

\* a quotient rounded to the nearest integer, halves away from zero
\* (Decimal's default rounding mode, ROUND_HALF_UP)
RoundDiv(a, b) ==
  LET n == IF b < 0 THEN -a ELSE a
      d == Abs(b)
  IN  IF n >= 0 THEN (2 * n + d) \div (2 * d)
      ELSE -((2 * (-n) + d) \div (2 * d))

-----------------------------------------------------------------------------
(* Configuration and source weights *)

\* initializeSourceWeights, in tenths; 0 stands for "not in the table"
SourceWeightTable(source) ==
  CASE source = "okx" -> 10
    [] source = "raydium" -> 8
    [] source = "orca" -> 8
    [] source = "binance" -> 10
    [] source = "coinbase" -> 9
    [] OTHER -> 0

\* the Map after the constructor
InitialSourceWeights ==
  [source \in {"okx", "raydium", "orca", "binance", "coinbase"} |-> SourceWeightTable(source)]

\* a lookup that gives a source that is not in the table the weight 1.0
SourceWeightDefaultOne(source) ==
  IF source \notin DOMAIN sourceWeights \/ sourceWeights[source] = 0
  THEN 10 ELSE sourceWeights[source]

\* this.sourceWeights.get(source) || 0.5
SourceWeight(source) ==
  IF source \notin DOMAIN sourceWeights \/ sourceWeights[source] = 0
  THEN 5 ELSE sourceWeights[source]

\* The defaults of the constructor's config.  A threshold is the fraction
\* num/den (2.5 = 5/2, 1.5 = 3/2); times are in clock ticks of a millisecond;
\* the volume unit is 0.005, which makes the default minVolume (0.01) 2.
DefaultConfig ==
  [ zScoreNum |-> 5, zScoreDen |-> 2,
    iqrNum |-> 3, iqrDen |-> 2,
    minDataPoints |-> 3,
    maxAge |-> 300000,
    twapWindow |-> 3600000,
    vwapWindow |-> 3600000,
    minVolume |-> 2,
    maxHistorySize |-> 1000 ]

\* new PriceAggregationService({maxAge, maxHistorySize, minDataPoints,
\* twapWindow, vwapWindow}): a store that ages and fills within a few ticks
SmallStoreConfig ==
  [DefaultConfig EXCEPT !.maxAge = 1, !.maxHistorySize = 2, !.minDataPoints = 2,
                        !.twapWindow = 12, !.vwapWindow = 12]

\* new PriceAggregationService({zScoreThreshold: 1.5, iqrMultiplier: 1.0,
\* maxAge, twapWindow, vwapWindow}): the sensitive thresholds, with which
\* four observations are enough for the z-score filter to remove one
SensitiveConfig ==
  [DefaultConfig EXCEPT !.zScoreNum = 3, !.zScoreDen = 2, !.iqrNum = 1, !.iqrDen = 1,
                        !.maxAge = 2, !.maxHistorySize = 5,
                        !.twapWindow = 24, !.vwapWindow = 24]

-----------------------------------------------------------------------------
(* Observation store *)

\* new Decimal(x) throws for a value that is no number
DecimalThrows(priceData) == priceData.malformed

normalizePriceData(priceData, t) ==
  [ price |-> priceData.price,
    volume |-> priceData.volume,
    timestamp |-> IF priceData.timestamp = 0 THEN t ELSE priceData.timestamp,
    source |-> priceData.source,
    weight |-> SourceWeight(priceData.source) ]

\* The entries addPriceData pushes, each with the serial number of its
\* push: seq is no field of the program's objects, it tells the k-th pushed
\* observation from the others.  The price history gets the normalised
\* observation, the volume history an entry that has no weight.
PriceEntry(n, k) ==
  [ price |-> n.price, volume |-> n.volume, timestamp |-> n.timestamp,
    source |-> n.source, weight |-> n.weight, seq |-> k ]

VolumeEntry(n, k) ==
  [ volume |-> n.volume, price |-> n.price,
    timestamp |-> n.timestamp, source |-> n.source, seq |-> k ]

\* a cleanup that purges nothing
PurgeOldKeepsAll(history, t, maxAge) == history

\* history.filter(data => (now - data.timestamp) <= maxAge)
PurgeOld(history, t, maxAge) ==
  Filter(history, [i \in DOMAIN history |-> (t - history[i].timestamp) <= maxAge])

\* a cleanup that never truncates
LimitSizeKeepsAll(filtered, maxSize) == filtered

\* a cleanup that truncates at the other end: it keeps the earliest entries
LimitSizeKeepsEarliest(filtered, maxSize) ==
  IF Len(filtered) > maxSize THEN SubSeq(filtered, 1, maxSize) ELSE filtered

\* if (filtered.length > maxSize) filtered.splice(0, filtered.length - maxSize)
LimitSize(filtered, maxSize) ==
  IF Len(filtered) > maxSize
  THEN SubSeq(filtered, Len(filtered) - maxSize + 1, Len(filtered))
  ELSE filtered

cleanupOldData(history, t, cfg) ==
  LimitSize(PurgeOld(history, t, cfg.maxAge), cfg.maxHistorySize)

\* Map.get(token) of a history that addPriceData creates on demand
HistoryOf(map, token) == IF token \in DOMAIN map THEN map[token] ELSE <<>>

Put(map, token, value) ==
  [k \in (DOMAIN map) \cup {token} |-> IF k = token THEN value ELSE map[k]]

-----------------------------------------------------------------------------
(* Outlier filters.  An array of data points is a sequence of records with *)
(* a price field; the filters work on the prices.                          *)

Prices(data) == [i \in DOMAIN data |-> data[i].price]

SumSquares(values) == SeqSum([i \in DOMAIN values |-> values[i] * values[i]])

\* n^2 times the population variance of values (simple-statistics'
\* standardDeviation is the square root of the population variance)
\* The variance of values is that of the values less values[1]: the sums
\* are taken over these differences, which keeps them small.
VarianceN2(values) ==
  LET shifted == [i \in DOMAIN values |-> values[i] - values[1]]
  IN  Len(values) * SumSquares(shifted) - SeqSum(shifted) * SeqSum(shifted)

\* a z-score test that also removes a value whose z-score equals the threshold
ZScoreStrictlyWithin(values, i, zNum, zDen) ==
  LET d == Len(values) * values[i] - SeqSum(values)
  IN  d * d * zDen * zDen < zNum * zNum * VarianceN2(values)

\* |values[i] - mean| / stdDev <= zNum / zDen, with both sides squared and
\* the denominators cleared
ZScoreWithin(values, i, zNum, zDen) ==
  LET d == Len(values) * values[i] - SeqSum(values)
  IN  d * d * zDen * zDen <= zNum * zNum * VarianceN2(values)

\* a z-score filter without "if (stdDev === 0) return data": every z-score
\* is then NaN, and no comparison with NaN holds
removeOutliersZScoreNoSpreadGuard(data, values, zNum, zDen) ==
  IF Len(values) < 3 THEN data
  ELSE Filter(data, [i \in DOMAIN data |->
         VarianceN2(values) # 0 /\ ZScoreWithin(values, i, zNum, zDen)])

removeOutliersZScore(data, values, zNum, zDen) ==
  IF Len(values) < 3 THEN data
  ELSE IF VarianceN2(values) = 0 THEN data
  ELSE Filter(data, [i \in DOMAIN data |-> ZScoreWithin(values, i, zNum, zDen)])

\* values.sort((a, b) => a - b)
RECURSIVE InsertSorted(_, _)
InsertSorted(sorted, x) ==
  IF sorted = <<>> THEN <<x>>
  ELSE IF x < Head(sorted) THEN <<x>> \o sorted
  ELSE <<Head(sorted)>> \o InsertSorted(Tail(sorted), x)

RECURSIVE SortNumbers(_)
SortNumbers(values) ==
  IF values = <<>> THEN <<>>
  ELSE InsertSorted(SortNumbers(SubSeq(values, 1, Len(values) - 1)), values[Len(values)])

\* Twice simple-statistics' quantile(values, q / 4) of a sorted array, for
\* q = 1 (0.25) and q = 3 (0.75).  With idx = length * p: when idx is no
\* integer the element at ceil(idx) - 1, else (length is then even) the mean
\* of the elements at idx - 1 and idx (0-based).
Quantile2(sorted, q) ==
  LET n == Len(sorted)
  IN  IF (n * q) % 4 # 0
      THEN 2 * sorted[((n * q) \div 4) + 1]
      ELSE sorted[(n * q) \div 4] + sorted[((n * q) \div 4) + 1]

\* bounds that forget the multiplier: q1 <= value <= q3
IQRWithinQuartiles(value, sorted, iqrNum, iqrDen) ==
  /\ 2 * value >= Quantile2(sorted, 1)
  /\ 2 * value <= Quantile2(sorted, 3)

\* lowerBound <= value <= upperBound, with the bounds q1 - m * iqr and
\* q3 + m * iqr for m = iqrNum / iqrDen, everything times 2 * iqrDen
IQRWithin(value, sorted, iqrNum, iqrDen) ==
  LET q1 == Quantile2(sorted, 1)
      q3 == Quantile2(sorted, 3)
      iqr == q3 - q1
  IN  /\ 2 * iqrDen * value >= iqrDen * q1 - iqrNum * iqr
      /\ 2 * iqrDen * value <= iqrDen * q3 + iqrNum * iqr

removeOutliersIQR(data, iqrNum, iqrDen) ==
  IF Len(data) < 4 THEN data
  ELSE LET sorted == SortNumbers(Prices(data))
       IN  Filter(data, [i \in DOMAIN data |-> IQRWithin(data[i].price, sorted, iqrNum, iqrDen)])

\* both filters, whatever the number of data points
removeOutliersUnguarded(data, cfg) ==
  removeOutliersIQR(
    removeOutliersZScore(data, Prices(data), cfg.zScoreNum, cfg.zScoreDen),
    cfg.iqrNum, cfg.iqrDen)

removeOutliers(data, cfg) ==
  IF Len(data) < cfg.minDataPoints THEN data
  ELSE removeOutliersIQR(
         removeOutliersZScore(data, Prices(data), cfg.zScoreNum, cfg.zScoreDen),
         cfg.iqrNum, cfg.iqrDen)

\* what removeOutliers adds to stats.outliersDetected
OutliersRemoved(data, cfg) == Len(data) - Len(removeOutliers(data, cfg))

-----------------------------------------------------------------------------
(* Confidence *)

NaN == [nan |-> TRUE, v |-> 0]

Num(x) == [nan |-> FALSE, v |-> x]

Sources(data) == {data[i].source : i \in DOMAIN data}

\* Math.floor(100 * stdDev / mean) of prices with a positive mean, capped at
\* 100: the largest r with (r * mean)^2 <= (100 * stdDev)^2
StdDevRatio100(prices) ==
  LET s == SeqSum(prices)
      v == VarianceN2(prices)
  IN  CHOOSE r \in 0..100 :
        /\ r * r * s * s <= 10000 * v
        /\ (r = 100 \/ (r + 1) * (r + 1) * s * s > 10000 * v)

\* avgPrice > 0 ? Math.max(0, 1 - priceStdDev / avgPrice) : 0, in hundredths
ConsistencyFactor100(prices) ==
  IF SeqSum(prices) > 0
  THEN (IF Len(prices) < 2 THEN 100 ELSE 100 - StdDevRatio100(prices))
  ELSE 0

\* d.weight is undefined on an entry that has no weight field
HasWeight(d) == "weight" \in DOMAIN d

\* calculateConfidence, in thousandths.  mean() of an array that holds
\* undefined is NaN, and Math.max(0, Math.min(1, NaN)) is NaN.
calculateConfidence(data) ==
  IF Len(data) = 0 THEN Num(0)
  ELSE IF \E i \in DOMAIN data : ~HasWeight(data[i]) THEN NaN
  ELSE LET dataPointsFactor == 30 * Min(Len(data), 10)
           sourcesFactor == 100 * Min(Cardinality(Sources(data)), 3)
           consistencyFactor == 3 * ConsistencyFactor100(Prices(data))
           weightFactor == (10 * SeqSum([i \in DOMAIN data |-> data[i].weight])) \div Len(data)
           confidence == dataPointsFactor + sourcesFactor + consistencyFactor + weightFactor
       IN  Num(Max(0, Min(1000, confidence)))

-----------------------------------------------------------------------------
(* VWAP, TWAP and the weighted average.  Each operator is the value the    *)
(* method returns, or the error it throws, at clock value t.               *)

PriceUnit == 10 * 10 * 10 * 10

\* numerator.div(denominator).toNumber(), in units of 1/PriceUnit: the
\* quotient's integer part, and its fraction rounded
DivToPrice(numerator, denominator) ==
  IF numerator >= 0 /\ denominator > 0
  THEN (numerator \div denominator) * PriceUnit
         + RoundDiv((numerator % denominator) * PriceUnit, denominator)
  ELSE RoundDiv(numerator * PriceUnit, denominator)

Failure(op, error) ==
  [ op |-> op, ok |-> FALSE, error |-> error, price |-> 0, totalVolume |-> 0,
    dataPoints |-> 0, outliers |-> 0, confidence |-> Num(0),
    minPrice |-> 0, maxPrice |-> 0, removed |-> 0 ]

Success(op, price, totalVolume, cleanData, relevantData) ==
  [ op |-> op, ok |-> TRUE, error |-> "none", price |-> price,
    totalVolume |-> totalVolume,
    dataPoints |-> Len(cleanData),
    outliers |-> Len(relevantData) - Len(cleanData),
    confidence |-> calculateConfidence(cleanData),
    minPrice |-> SeqMin(Prices(cleanData)),
    maxPrice |-> SeqMax(Prices(cleanData)),
    removed |-> Len(relevantData) - Len(cleanData) ]

\* windowMs = windowMs || this.config.vwapWindow
Window(windowMs, default) == IF windowMs = 0 THEN default ELSE windowMs

\* a filter without the volume floor
VWAPRelevantNoFloor(history, t, windowMs, cfg) ==
  Filter(history, [i \in DOMAIN history |->
    /\ history[i].timestamp >= t - windowMs
    /\ history[i].volume # 0])

\* volumeHistory.filter(data => data.timestamp >= cutoffTime && data.volume
\*   && data.volume.gte(this.config.minVolume))
VWAPRelevant(history, t, windowMs, cfg) ==
  Filter(history, [i \in DOMAIN history |->
    /\ history[i].timestamp >= t - windowMs
    /\ history[i].volume # 0
    /\ history[i].volume >= cfg.minVolume])

\* a product that forgets to weight: price + volume
VolumePriceSum(data) == data.price + data.volume

\* const volumePrice = data.price.mul(data.volume)
VolumePrice(data) == data.price * data.volume

calculateVWAP(volHist, t, windowArg, cfg) ==
  LET windowMs == Window(windowArg, cfg.vwapWindow)
      relevantData == VWAPRelevant(volHist, t, windowMs, cfg)
      cleanData == removeOutliers(relevantData, cfg)
      totalVolumePrice == SeqSum([i \in DOMAIN cleanData |-> VolumePrice(cleanData[i])])
      totalVolume == SeqSum([i \in DOMAIN cleanData |-> cleanData[i].volume])
      removed == OutliersRemoved(relevantData, cfg)
  IN  IF Len(volHist) = 0 THEN Failure("vwap", "No volume data available")
      ELSE IF Len(relevantData) < cfg.minDataPoints
           THEN Failure("vwap", "Insufficient data points")
      ELSE IF Len(cleanData) = 0
           THEN [Failure("vwap", "No valid data after outlier removal") EXCEPT !.removed = removed]
      ELSE IF totalVolume = 0
           THEN [Failure("vwap", "Total volume is zero") EXCEPT !.removed = removed]
      ELSE Success("vwap", DivToPrice(totalVolumePrice, totalVolume),
                   totalVolume, cleanData, relevantData)

\* .sort((a, b) => a.timestamp - b.timestamp), a stable sort
RECURSIVE InsertByTimestamp(_, _)
InsertByTimestamp(sorted, d) ==
  IF sorted = <<>> THEN <<d>>
  ELSE IF d.timestamp < sorted[Len(sorted)].timestamp
       THEN Append(InsertByTimestamp(SubSeq(sorted, 1, Len(sorted) - 1), d), sorted[Len(sorted)])
       ELSE Append(sorted, d)

RECURSIVE SortByTimestamp(_)
SortByTimestamp(data) ==
  IF data = <<>> THEN <<>>
  ELSE InsertByTimestamp(SortByTimestamp(SubSeq(data, 1, Len(data) - 1)), data[Len(data)])

TWAPRelevant(history, t, windowMs) ==
  SortByTimestamp(Filter(history, [i \in DOMAIN history |-> history[i].timestamp >= t - windowMs]))

\* a time weight that runs until now for every data point
TimeWeightUntilNow(cleanData, i, t) == t - cleanData[i].timestamp

\* a time weight that gives the last data point no time at all
TimeWeightSpanOnly(cleanData, i, t) ==
  IF i = Len(cleanData) THEN 0
  ELSE cleanData[i + 1].timestamp - cleanData[i].timestamp

\* a time weight whose last difference is taken the other way round
TimeWeightLastNegated(cleanData, i, t) ==
  IF i = Len(cleanData) THEN cleanData[i].timestamp - t
  ELSE cleanData[i + 1].timestamp - cleanData[i].timestamp

\* the time weight of cleanData[i]: until the next data point, the last one until now
TimeWeight(cleanData, i, t) ==
  IF i = Len(cleanData) THEN t - cleanData[i].timestamp
  ELSE cleanData[i + 1].timestamp - cleanData[i].timestamp

FinalWeight(cleanData, i, t) == TimeWeight(cleanData, i, t) * cleanData[i].weight

calculateTWAP(history, t, windowArg, cfg) ==
  LET windowMs == Window(windowArg, cfg.twapWindow)
      relevantData == TWAPRelevant(history, t, windowMs)
      cleanData == removeOutliers(relevantData, cfg)
      weightedSum == SeqSum([i \in DOMAIN cleanData |-> cleanData[i].price * FinalWeight(cleanData, i, t)])
      totalWeight == SeqSum([i \in DOMAIN cleanData |-> FinalWeight(cleanData, i, t)])
      removed == OutliersRemoved(relevantData, cfg)
  IN  IF Len(history) = 0 THEN Failure("twap", "No price data available")
      ELSE IF Len(relevantData) < cfg.minDataPoints
           THEN Failure("twap", "Insufficient data points")
      ELSE IF Len(cleanData) = 0
           THEN [Failure("twap", "No valid data after outlier removal") EXCEPT !.removed = removed]
      ELSE IF totalWeight = 0
           THEN [Failure("twap", "Total weight is zero") EXCEPT !.removed = removed]
      ELSE Success("twap", DivToPrice(weightedSum, totalWeight),
                   0, cleanData, relevantData)

calculateWeightedAverage(history, cfg) ==
  LET recentData == LastN(history, 10)
      cleanData == removeOutliers(recentData, cfg)
      weightedSum == SeqSum([i \in DOMAIN cleanData |-> cleanData[i].price * cleanData[i].weight])
      totalWeight == SeqSum([i \in DOMAIN cleanData |-> cleanData[i].weight])
      removed == OutliersRemoved(recentData, cfg)
  IN  IF Len(history) = 0 THEN Failure("weightedAverage", "No price data available")
      ELSE IF Len(cleanData) = 0
           THEN [Failure("weightedAverage", "No valid data after outlier removal") EXCEPT !.removed = removed]
      ELSE Success("weightedAverage", DivToPrice(weightedSum, totalWeight),
                   0, cleanData, recentData)

-----------------------------------------------------------------------------
(* The best-price selector *)

\* Math.log(n + 1) times 100000, rounded, for n = 0..12
LogTable ==
  << 0, 69315, 109861, 138629, 160944, 179176, 194591,
     207944, 219722, 230259, 239790, 248491, 256495 >>

\* candidate.confidence * Math.log(candidate.dataPoints + 1)
Score(c) ==
  IF c.confidence.nan THEN NaN
  ELSE Num(c.confidence.v * LogTable[c.dataPoints + 1])

\* a > b on JavaScript numbers: false when either is NaN
Greater(a, b) == ~a.nan /\ ~b.nan /\ a.v > b.v

Candidate(type, r) ==
  [ type |-> type, error |-> "none", price |-> r.price,
    confidence |-> r.confidence, dataPoints |-> r.dataPoints ]

NoCandidate ==
  [ type |-> "error", error |-> "No valid price calculations available",
    price |-> 0, confidence |-> Num(0), dataPoints |-> 0 ]

Candidates(results) ==
  (IF results.vwap.ok THEN <<Candidate("vwap", results.vwap)>> ELSE <<>>)
  \o (IF results.twap.ok THEN <<Candidate("twap", results.twap)>> ELSE <<>>)
  \o (IF results.weightedAverage.ok
      THEN <<Candidate("weightedAverage", results.weightedAverage)>> ELSE <<>>)

\* candidates.reduce((best, current) => currentScore > bestScore ? current : best)
RECURSIVE Reduce(_, _)
Reduce(best, rest) ==
  IF rest = <<>> THEN best
  ELSE Reduce(IF Greater(Score(Head(rest)), Score(best)) THEN Head(rest) ELSE best,
              Tail(rest))

selectBestPrice(results) ==
  LET candidates == Candidates(results)
  IN  IF Len(candidates) = 0 THEN NoCandidate
      ELSE Reduce(Head(candidates), Tail(candidates))

-----------------------------------------------------------------------------
(* The methods of PriceAggregationService as actions *)

NotCalled(op) == Failure(op, "not called")

\* the value of a call that ran no calculation
NoResult ==
  [ op |-> "none", vwap |-> NotCalled("vwap"), twap |-> NotCalled("twap"),
    weightedAverage |-> NotCalled("weightedAverage"), recommendedPrice |-> NoCandidate ]

NoPriceData ==
  [ price |-> 0, volume |-> 0, timestamp |-> 0, source |-> "none", malformed |-> FALSE ]

Call(op, token, vwapWindow, twapWindow) ==
  [ op |-> op, token |-> token, priceData |-> NoPriceData,
    vwapWindow |-> vwapWindow, twapWindow |-> twapWindow ]

\* stats that count a calculation before it is known to succeed
CountedAlways(st, r) ==
  [st EXCEPT !.outliersDetected = @ + r.removed,
             !.vwapCalculations = IF r.op = "vwap" THEN @ + 1 ELSE @,
             !.twapCalculations = IF r.op = "twap" THEN @ + 1 ELSE @]

\* stats after a calculation that returned or threw r
Counted(st, r) ==
  [st EXCEPT !.outliersDetected = @ + r.removed,
             !.vwapCalculations = IF r.op = "vwap" /\ r.ok THEN @ + 1 ELSE @,
             !.twapCalculations = IF r.op = "twap" /\ r.ok THEN @ + 1 ELSE @]

\* The store after addPriceData(token, priceData) on the store st at clock
\* value t.  An error thrown by normalizePriceData is caught and logged: the
\* store stays as it was.
\* an addPriceData that counts the call before it normalises the input
StoredCountingFirst(st, token, priceData, t, cfg) ==
  IF DecimalThrows(priceData)
  THEN [st EXCEPT !.stats = [@ EXCEPT !.totalPricesProcessed = @ + 1, !.lastUpdate = t]]
  ELSE LET n == normalizePriceData(priceData, t)
           history == Append(HistoryOf(st.priceHistory, token), PriceEntry(n, st.pushed + 1))
           volHist == IF n.volume # 0
                      THEN Append(HistoryOf(st.volumeHistory, token), VolumeEntry(n, st.pushed + 1))
                      ELSE HistoryOf(st.volumeHistory, token)
       IN  [ priceHistory |-> Put(st.priceHistory, token, cleanupOldData(history, t, cfg)),
             volumeHistory |-> Put(st.volumeHistory, token, cleanupOldData(volHist, t, cfg)),
             stats |-> [st.stats EXCEPT !.totalPricesProcessed = @ + 1, !.lastUpdate = t],
             pushed |-> st.pushed + 1 ]

Stored(st, token, priceData, t, cfg) ==
  IF DecimalThrows(priceData) THEN st
  ELSE LET n == normalizePriceData(priceData, t)
           history == Append(HistoryOf(st.priceHistory, token), PriceEntry(n, st.pushed + 1))
           volHist == IF n.volume # 0
                      THEN Append(HistoryOf(st.volumeHistory, token), VolumeEntry(n, st.pushed + 1))
                      ELSE HistoryOf(st.volumeHistory, token)
       IN  [ priceHistory |-> Put(st.priceHistory, token, cleanupOldData(history, t, cfg)),
             volumeHistory |-> Put(st.volumeHistory, token, cleanupOldData(volHist, t, cfg)),
             stats |-> [st.stats EXCEPT !.totalPricesProcessed = @ + 1, !.lastUpdate = t],
             pushed |-> st.pushed + 1 ]

\* the store of the current state
Store ==
  [ priceHistory |-> priceHistory, volumeHistory |-> volumeHistory,
    stats |-> stats, pushed |-> pushed ]

addPriceData(token, priceData) ==
  /\ lastCall' = [Call("addPriceData", token, 0, 0) EXCEPT !.priceData = priceData]
  /\ result' = NoResult
  /\ \E st \in {Stored(Store, token, priceData, now, config)} :
       /\ priceHistory' = st.priceHistory
       /\ volumeHistory' = st.volumeHistory
       /\ stats' = st.stats
       /\ pushed' = st.pushed
  /\ UNCHANGED <<config, sourceWeights, now, calls>>
  /\ UNCHANGED collectorVars
  /\ UNCHANGED filterVars

CalculateVWAP(token, windowMs) ==
  /\ calls < MaxCalls
  /\ \E r \in {calculateVWAP(HistoryOf(volumeHistory, token), now, windowMs, config)} :
      /\ calls' = calls + 1
      /\ result' = [NoResult EXCEPT !.op = "calculateVWAP", !.vwap = r]
      /\ lastCall' = Call("calculateVWAP", token, windowMs, 0)
      /\ stats' = Counted(stats, r)
      /\ UNCHANGED <<config, sourceWeights, now, priceHistory, volumeHistory, pushed>>
      /\ UNCHANGED collectorVars
      /\ UNCHANGED filterVars

\* a calculateTWAP that sorts the stored array itself, not a filtered copy
CalculateTWAPSortingInPlace(token, windowMs) ==
  /\ calls < MaxCalls
  /\ \E r \in {calculateTWAP(HistoryOf(priceHistory, token), now, windowMs, config)} :
      /\ calls' = calls + 1
      /\ result' = [NoResult EXCEPT !.op = "calculateTWAP", !.twap = r]
      /\ lastCall' = Call("calculateTWAP", token, 0, windowMs)
      /\ stats' = Counted(stats, r)
      /\ priceHistory' = IF token \in DOMAIN priceHistory
                         THEN Put(priceHistory, token, SortByTimestamp(priceHistory[token]))
                         ELSE priceHistory
      /\ UNCHANGED <<config, sourceWeights, now, volumeHistory, pushed>>
      /\ UNCHANGED collectorVars
      /\ UNCHANGED filterVars

CalculateTWAP(token, windowMs) ==
  /\ calls < MaxCalls
  /\ \E r \in {calculateTWAP(HistoryOf(priceHistory, token), now, windowMs, config)} :
      /\ calls' = calls + 1
      /\ result' = [NoResult EXCEPT !.op = "calculateTWAP", !.twap = r]
      /\ lastCall' = Call("calculateTWAP", token, 0, windowMs)
      /\ stats' = Counted(stats, r)
      /\ UNCHANGED <<config, sourceWeights, now, priceHistory, volumeHistory, pushed>>
      /\ UNCHANGED collectorVars
      /\ UNCHANGED filterVars

CalculateWeightedAverage(token) ==
  /\ calls < MaxCalls
  /\ \E r \in {calculateWeightedAverage(HistoryOf(priceHistory, token), config)} :
      /\ calls' = calls + 1
      /\ result' = [NoResult EXCEPT !.op = "calculateWeightedAverage", !.weightedAverage = r]
      /\ lastCall' = Call("calculateWeightedAverage", token, 0, 0)
      /\ stats' = Counted(stats, r)
      /\ UNCHANGED <<config, sourceWeights, now, priceHistory, volumeHistory, pushed>>
      /\ UNCHANGED collectorVars
      /\ UNCHANGED filterVars

\* three calculations in one try: the first that throws ends them all
CalculatedUntilFailure(token, vwapWindow, twapWindow) ==
  LET vwap == calculateVWAP(HistoryOf(volumeHistory, token), now, vwapWindow, config)
      twap == calculateTWAP(HistoryOf(priceHistory, token), now, twapWindow, config)
  IN  [ op |-> "getAggregatedPrice",
        vwap |-> vwap,
        twap |-> IF vwap.ok THEN twap ELSE NotCalled("twap"),
        weightedAverage |->
          IF vwap.ok /\ twap.ok
          THEN calculateWeightedAverage(HistoryOf(priceHistory, token), config)
          ELSE NotCalled("weightedAverage"),
        recommendedPrice |-> NoCandidate ]

\* getAggregatedPrice(token, {vwapWindow, twapWindow}): the three calculations
\* one after the other, each in its own try, then selectBestPrice
Calculated(token, vwapWindow, twapWindow) ==
  [ op |-> "getAggregatedPrice",
    vwap |-> calculateVWAP(HistoryOf(volumeHistory, token), now, vwapWindow, config),
    twap |-> calculateTWAP(HistoryOf(priceHistory, token), now, twapWindow, config),
    weightedAverage |-> calculateWeightedAverage(HistoryOf(priceHistory, token), config),
    recommendedPrice |-> NoCandidate ]

GetAggregatedPrice(token, vwapWindow, twapWindow) ==
  /\ calls < MaxCalls
  /\ \E results \in {Calculated(token, vwapWindow, twapWindow)} :
      /\ calls' = calls + 1
      /\ result' = [results EXCEPT !.recommendedPrice = selectBestPrice(results)]
      /\ lastCall' = Call("getAggregatedPrice", token, vwapWindow, twapWindow)
      /\ stats' = Counted(Counted(Counted(stats, results.vwap), results.twap),
                          results.weightedAverage)
      /\ UNCHANGED <<config, sourceWeights, now, priceHistory, volumeHistory, pushed>>
      /\ UNCHANGED collectorVars
      /\ UNCHANGED filterVars

\* this.priceHistory.delete(token); this.volumeHistory.delete(token)
Without(map, token) == [k \in (DOMAIN map) \ {token} |-> map[k]]

\* a clearTokenData that forgets the volume history
ClearTokenDataPricesOnly(token) ==
  /\ priceHistory' = Without(priceHistory, token)
  /\ volumeHistory' = volumeHistory
  /\ result' = NoResult
  /\ lastCall' = Call("clearTokenData", token, 0, 0)
  /\ UNCHANGED <<config, sourceWeights, now, stats, calls, pushed>>
  /\ UNCHANGED collectorVars
  /\ UNCHANGED filterVars

ClearTokenData(token) ==
  /\ priceHistory' = Without(priceHistory, token)
  /\ volumeHistory' = Without(volumeHistory, token)
  /\ result' = NoResult
  /\ lastCall' = Call("clearTokenData", token, 0, 0)
  /\ UNCHANGED <<config, sourceWeights, now, stats, calls, pushed>>
  /\ UNCHANGED collectorVars
  /\ UNCHANGED filterVars

EmptyMap == [k \in {} |-> <<>>]

InitialStats ==
  [ totalPricesProcessed |-> 0, outliersDetected |-> 0, vwapCalculations |-> 0,
    twapCalculations |-> 0, lastUpdate |-> 0 ]

ClearAllData ==
  /\ priceHistory' = EmptyMap
  /\ volumeHistory' = EmptyMap
  /\ stats' = InitialStats
  /\ result' = NoResult
  /\ lastCall' = Call("clearAllData", "none", 0, 0)
  /\ UNCHANGED <<config, sourceWeights, now, calls, pushed>>
  /\ UNCHANGED collectorVars
  /\ UNCHANGED filterVars

\* time passes
AdvanceClock ==
  /\ now' = now + 1
  /\ result' = NoResult
  /\ lastCall' = Call("advanceClock", "none", 0, 0)
  /\ UNCHANGED <<config, sourceWeights, priceHistory, volumeHistory, stats, calls, pushed>>
  /\ UNCHANGED collectorVars
  /\ UNCHANGED filterVars

-----------------------------------------------------------------------------
(* DataCollector.  In the specification of the collector a clock tick is a *)
(* second.  A request is one collect...Data call of one run of             *)
(* collectAllData, with the makeRequest it awaits:                         *)
(*   fetching   axios.get is pending, and fails at `due` (the timeout)     *)
(*   waiting    makeRequest sleeps until `due` before the next attempt     *)
(*   fulfilled  the call returned                                          *)
(*   rejected   the call threw                                             *)

\* new DataCollector(service, {collectInterval: 4000, timeout: 500,
\* enableCoinGecko: false, enableMockData: false}), in seconds.  The timeout
\* is under a second: an attempt ends within the second in which it starts.
CollectorConfig ==
  [ collectInterval |-> 4,
    enableOKX |-> TRUE,
    enableBinance |-> TRUE,
    enableCoinGecko |-> FALSE,
    enableMockData |-> FALSE,
    retryAttempts |-> 3,
    timeout |-> 0 ]

\* Object.keys(this.tokenMappings) after the constructor; the model follows
\* the first of its three pairs, the requests of the others are made alike
CollectorTokens == <<"SOL/USDC">>

\* the sources collectAllData asks over the network, in the order of its pushes
NetworkSources ==
  (IF CollectorConfig.enableOKX THEN <<"okx">> ELSE <<>>)
  \o (IF CollectorConfig.enableBinance THEN <<"binance">> ELSE <<>>)
  \o (IF CollectorConfig.enableCoinGecko THEN <<"coingecko">> ELSE <<>>)

\* this.collectInterval is null; armed counts the timers that setInterval has
\* armed for the collector and that no clearInterval has cleared
NoTimer == [active |-> FALSE, due |-> 0, armed |-> 0]

InitialCollectorStats ==
  [ totalRequests |-> 0, successfulRequests |-> 0, failedRequests |-> 0, lastCollection |-> 0 ]

\* a backoff that does not grow
BackoffDelayFixed(attempt) == 2

\* Math.pow(2, attempt) * 1000 milliseconds, in seconds
RECURSIVE BackoffDelay(_)
BackoffDelay(attempt) == IF attempt = 0 THEN 1 ELSE 2 * BackoffDelay(attempt - 1)

\* the first axios.get of a collect...Data call made at clock value t
NewRequest(tick, token, source, t) ==
  [ tick |-> tick, token |-> token, source |-> source, phase |-> "fetching",
    attempt |-> 1, due |-> t + CollectorConfig.timeout, response |-> "none" ]

\* collectMockData has no await: it has inserted and returned when it is pushed
MockRequest(tick, token, t) ==
  [ tick |-> tick, token |-> token, source |-> "mock", phase |-> "fulfilled",
    attempt |-> 0, due |-> t, response |-> "ticker" ]

\* the promises one run of collectAllData pushes for one token
TokenRequests(tick, token, t) ==
  [i \in DOMAIN NetworkSources |-> NewRequest(tick, token, NetworkSources[i], t)]
  \o (IF CollectorConfig.enableMockData THEN <<MockRequest(tick, token, t)>> ELSE <<>>)

RECURSIVE AllRequests(_, _, _)
AllRequests(tick, tokens, t) ==
  IF tokens = <<>> THEN <<>>
  ELSE TokenRequests(tick, Head(tokens), t) \o AllRequests(tick, Tail(tokens), t)

\* the observation a collect...Data call passes to addPriceData
Ticker(source, t) ==
  [ price |-> IF source = "okx" THEN 1 ELSE 2, volume |-> 3, timestamp |-> t,
    source |-> source, malformed |-> FALSE ]

\* what a collect...Data call passes to addPriceData when the response has
\* no price and no volume to parse: parseFloat(undefined) is NaN
Unparsed(source, t) ==
  [ price |-> 0, volume |-> 0, timestamp |-> t, source |-> source, malformed |-> FALSE ]

\* a run that inserts a mock observation whatever enableMockData says
RECURSIVE MockStoredAlways(_, _, _)
MockStoredAlways(st, tokens, t) ==
  IF tokens = <<>> THEN st
  ELSE MockStoredAlways(Stored(st, Head(tokens), Ticker("mock", t), t, config), Tail(tokens), t)

\* the store after the mock observations of one run of collectAllData
RECURSIVE MockStored(_, _, _)
MockStored(st, tokens, t) ==
  IF tokens = <<>> \/ ~CollectorConfig.enableMockData THEN st
  ELSE MockStored(Stored(st, Head(tokens), Ticker("mock", t), t, config), Tail(tokens), t)

RequestsOf(reqs, tick) == {r \in DOMAIN reqs : reqs[r].tick = tick}

Settled(req) == req.phase \in {"fulfilled", "rejected"}

\* Promise.allSettled(promises) has resolved
AllSettled(reqs, tick) == \A r \in RequestsOf(reqs, tick) : Settled(reqs[r])

\* ticks and stats once the requests are reqs: a run whose promises have all
\* settled counts them and ends
TicksAfter(tks, reqs) ==
  [k \in DOMAIN tks |-> [tks[k] EXCEPT !.running = @ /\ ~AllSettled(reqs, k)]]

\* stats that count every failed attempt of a rejected request
StatsAfterCountingAttempts(st, tks, reqs, t) ==
  IF \E k \in DOMAIN tks : tks[k].running /\ AllSettled(reqs, k)
  THEN LET k == CHOOSE j \in DOMAIN tks : tks[j].running /\ AllSettled(reqs, j)
           mine == RequestsOf(reqs, k)
       IN  [ totalRequests |-> st.totalRequests + Cardinality(mine),
             successfulRequests |-> st.successfulRequests
               + Cardinality({r \in mine : reqs[r].phase = "fulfilled"}),
             failedRequests |-> st.failedRequests
               + SeqSum([r \in DOMAIN reqs |->
                   IF r \in mine /\ reqs[r].phase = "rejected" THEN reqs[r].attempt ELSE 0]),
             lastCollection |-> t ]
  ELSE st

StatsAfter(st, tks, reqs, t) ==
  IF \E k \in DOMAIN tks : tks[k].running /\ AllSettled(reqs, k)
  THEN LET k == CHOOSE j \in DOMAIN tks : tks[j].running /\ AllSettled(reqs, j)
           mine == RequestsOf(reqs, k)
       IN  [ totalRequests |-> st.totalRequests + Cardinality(mine),
             successfulRequests |-> st.successfulRequests
               + Cardinality({r \in mine : reqs[r].phase = "fulfilled"}),
             failedRequests |-> st.failedRequests
               + Cardinality({r \in mine : reqs[r].phase = "rejected"}),
             lastCollection |-> t ]
  ELSE st

\* collectAllData() up to its await, and past it when nothing is pending
collectAllData ==
  \E reqs \in {requests \o AllRequests(Len(ticks) + 1, tokenMappings, now)} :
  \E tks \in {Append(ticks, [started |-> now, running |-> TRUE])} :
  \E st \in {MockStored(Store, tokenMappings, now)} :
    /\ requests' = reqs
    /\ ticks' = TicksAfter(tks, reqs)
    /\ collectorStats' = StatsAfter(collectorStats, tks, reqs, now)
    /\ priceHistory' = st.priceHistory
    /\ volumeHistory' = st.volumeHistory
    /\ stats' = st.stats
    /\ pushed' = st.pushed

\* a startCollection without the test of isCollecting
StartCollectionUnguarded ==
  /\ isCollecting' = TRUE
  /\ collectAllData
  /\ collectInterval' = [active |-> TRUE, due |-> now + CollectorConfig.collectInterval,
                         armed |-> collectInterval.armed + 1]
  /\ UNCHANGED <<config, sourceWeights, now, result, lastCall, calls, tokenMappings>>
  /\ UNCHANGED filterVars

StartCollection ==
  /\ ~isCollecting
  /\ isCollecting' = TRUE
  /\ collectAllData
  /\ collectInterval' = [active |-> TRUE, due |-> now + CollectorConfig.collectInterval,
                         armed |-> collectInterval.armed + 1]
  /\ UNCHANGED <<config, sourceWeights, now, result, lastCall, calls, tokenMappings>>
  /\ UNCHANGED filterVars

StopCollection ==
  /\ isCollecting
  /\ isCollecting' = FALSE
  /\ collectInterval' = [NoTimer EXCEPT !.armed = collectInterval.armed - 1]
  /\ UNCHANGED <<ticks, requests, collectorStats, tokenMappings>>
  /\ UNCHANGED serviceVars
  /\ UNCHANGED filterVars

\* the callback of setInterval
IntervalFires ==
  /\ collectInterval.active
  /\ collectInterval.due = now
  /\ collectAllData
  /\ collectInterval' = [collectInterval EXCEPT !.due = now + CollectorConfig.collectInterval]
  /\ UNCHANGED <<config, sourceWeights, now, result, lastCall, calls, isCollecting, tokenMappings>>
  /\ UNCHANGED filterVars

\* a run in which a failed attempt of one request rejects what else is pending
ChangedAbortsOthers(r, req) ==
  [i \in DOMAIN requests |->
    IF i = r THEN req
    ELSE IF /\ requests[r].phase = "fetching"
            /\ req.phase \in {"waiting", "rejected"}
            /\ requests[i].tick = req.tick
            /\ ~Settled(requests[i])
         THEN [requests[i] EXCEPT !.phase = "rejected"]
         ELSE requests[i]]

\* What the requests become when request r changes to req: the promises of
\* Promise.allSettled settle one by one, none touches another.
Changed(r, req) == [requests EXCEPT ![r] = req]

\* axios.get resolves; body tells whether the response carries a ticker
\* (tickerResponse.data[0], response, response[coinId]), a ticker without the
\* fields of price and volume ("noprice"), or none
FetchSucceeds(r, body) ==
  /\ requests[r].phase = "fetching"
  /\ \E st \in {IF body = "ticker"
                THEN Stored(Store, requests[r].token, Ticker(requests[r].source, now), now, config)
                ELSE IF body = "noprice"
                THEN Stored(Store, requests[r].token, Unparsed(requests[r].source, now), now, config)
                ELSE Store} :
     \E reqs \in {Changed(r, [requests[r] EXCEPT !.phase = "fulfilled", !.response = body])} :
       /\ requests' = reqs
       /\ ticks' = TicksAfter(ticks, reqs)
       /\ collectorStats' = StatsAfter(collectorStats, ticks, reqs, now)
       /\ priceHistory' = st.priceHistory
       /\ volumeHistory' = st.volumeHistory
       /\ stats' = st.stats
       /\ pushed' = st.pushed
  /\ UNCHANGED <<config, sourceWeights, now, result, lastCall, calls, isCollecting, collectInterval, tokenMappings>>
  /\ UNCHANGED filterVars

\* a makeRequest that sleeps and tries again after every failed attempt
FetchFailsWithoutLimit(r) ==
  /\ requests[r].phase = "fetching"
  /\ \E reqs \in {Changed(r,
         [requests[r] EXCEPT !.phase = "waiting",
                             !.due = now + BackoffDelay(requests[r].attempt)])} :
       /\ requests' = reqs
       /\ ticks' = TicksAfter(ticks, reqs)
       /\ collectorStats' = StatsAfter(collectorStats, ticks, reqs, now)
  /\ UNCHANGED serviceVars
  /\ UNCHANGED <<isCollecting, collectInterval, tokenMappings>>
  /\ UNCHANGED filterVars

\* axios.get rejects (an error of the network, a status, the timeout): the
\* last attempt throws, an earlier one sleeps
FetchFails(r) ==
  /\ requests[r].phase = "fetching"
  /\ \E reqs \in {Changed(r,
         IF requests[r].attempt = CollectorConfig.retryAttempts
         THEN [requests[r] EXCEPT !.phase = "rejected", !.response = "error"]
         ELSE [requests[r] EXCEPT !.phase = "waiting",
                                  !.due = now + BackoffDelay(requests[r].attempt)])} :
       /\ requests' = reqs
       /\ ticks' = TicksAfter(ticks, reqs)
       /\ collectorStats' = StatsAfter(collectorStats, ticks, reqs, now)
  /\ UNCHANGED serviceVars
  /\ UNCHANGED <<isCollecting, collectInterval, tokenMappings>>
  /\ UNCHANGED filterVars

\* the setTimeout of the backoff fires: the next attempt
RetryAfterBackoff(r) ==
  /\ requests[r].phase = "waiting"
  /\ requests[r].due = now
  /\ requests' = Changed(r, [requests[r] EXCEPT !.phase = "fetching", !.attempt = @ + 1,
                                               !.due = now + CollectorConfig.timeout])
  /\ UNCHANGED serviceVars
  /\ UNCHANGED <<isCollecting, collectInterval, ticks, collectorStats, tokenMappings>>
  /\ UNCHANGED filterVars

\* a timer that is due fires before the clock moves on
TimerDue ==
  \/ collectInterval.active /\ collectInterval.due = now
  \/ \E r \in DOMAIN requests :
       requests[r].phase \in {"fetching", "waiting"} /\ requests[r].due = now

\* a second passes
PassTime ==
  /\ ~TimerDue
  /\ now' = now + 1
  /\ UNCHANGED <<config, sourceWeights, priceHistory, volumeHistory, stats, result, lastCall, calls, pushed>>
  /\ UNCHANGED collectorVars
  /\ UNCHANGED filterVars

InitCollector ==
  /\ isCollecting = FALSE
  /\ collectInterval = NoTimer
  /\ ticks = <<>>
  /\ requests = <<>>
  /\ collectorStats = InitialCollectorStats
  /\ tokenMappings = CollectorTokens

\* no outlier filter has been called directly
NoFilterCall == [method |-> "none", again |-> FALSE]

InitFilters ==
  /\ filterCall = NoFilterCall
  /\ filterData = <<>>
  /\ filterResult = <<>>

-----------------------------------------------------------------------------
(* The service with a small store (two observations per token, one clock   *)
(* tick of age): callers insert observations, query, clear, and time       *)
(* passes.                                                                 *)

PriceData(price, volume, timestamp, source) ==
  [ price |-> price, volume |-> volume, timestamp |-> timestamp,
    source |-> source, malformed |-> FALSE ]

\* what callers insert at clock value t: without a timestamp, with one in
\* the past, with one older than maxAge, with one in the future, and with a
\* price that is no number
StoreInputs(t, cfg) ==
  { PriceData(1, 3, 0, "okx"),
    PriceData(2, 0, t - 1, "mock"),
    PriceData(3, 1, t - (cfg.maxAge + 1), "okx"),
    PriceData(4, 3, t + 1, "binance"),
    [PriceData(5, 3, 0, "okx") EXCEPT !.malformed = TRUE] }

\* the windows callers pass: none (the configured default), and a short one
Windows == {0, 1}

Init ==
  /\ config = SmallStoreConfig
  /\ sourceWeights = InitialSourceWeights
  /\ now = StartTime
  /\ priceHistory = EmptyMap
  /\ volumeHistory = EmptyMap
  /\ stats = InitialStats
  /\ result = NoResult
  /\ lastCall = Call("none", "none", 0, 0)
  /\ calls = 0
  /\ pushed = 0
  /\ InitCollector
  /\ InitFilters

Next ==
  \/ \E token \in Tokens : \E d \in StoreInputs(now, config) :
       pushed < MaxInserts /\ addPriceData(token, d)
  \/ \E token \in Tokens : \E w \in Windows : CalculateVWAP(token, w)
  \/ \E token \in Tokens : \E w \in Windows : CalculateTWAP(token, w)
  \/ \E token \in Tokens : CalculateWeightedAverage(token)
  \/ \E token \in Tokens : \E w \in Windows : GetAggregatedPrice(token, w, w)
  \/ \E token \in Tokens : ClearTokenData(token)
  \/ ClearAllData
  \/ now < StartTime + MaxAdvance /\ AdvanceClock

Spec == Init /\ [][Next]_vars

-----------------------------------------------------------------------------
(* Properties of the store, in Spec.  A state in which lastCall.op is       *)
(* "addPriceData" is the state in which that call has just returned.       *)

\* C1, as stated: after addPriceData(P, O) returns, whatever O's timestamp,
\* the last observation of P's price sequence is O and no stored observation
\* of P is older than now - maxAge.
C1_AsStated ==
  (lastCall.op = "addPriceData" /\ ~DecimalThrows(lastCall.priceData)) =>
    LET history == HistoryOf(priceHistory, lastCall.token)
    IN  /\ Len(history) > 0
        /\ history[Len(history)] = PriceEntry(normalizePriceData(lastCall.priceData, now), pushed)
        /\ \A i \in DOMAIN history : now - history[i].timestamp <= config.maxAge

\* C1, amended: after addPriceData(P, O) returns, no stored observation of P
\* is older than now - maxAge, and the last observation of P's price
\* sequence is O when O's timestamp (the clock value when O has none) is not
\* older than now - maxAge; an older O is purged by the call that stored it.
C1_LastUnlessStale ==
  (lastCall.op = "addPriceData" /\ ~DecimalThrows(lastCall.priceData)) =>
    LET history == HistoryOf(priceHistory, lastCall.token)
        O == lastCall.priceData
        stamp == IF O.timestamp = 0 THEN now ELSE O.timestamp
    IN  /\ \A i \in DOMAIN history : now - history[i].timestamp <= config.maxAge
        /\ \A i \in DOMAIN HistoryOf(volumeHistory, lastCall.token) :
             now - volumeHistory[lastCall.token][i].timestamp <= config.maxAge
        /\ IF now - stamp <= config.maxAge
           THEN /\ Len(history) > 0
                /\ history[Len(history)].seq = pushed
                /\ history[Len(history)].price = O.price
                /\ history[Len(history)].volume = O.volume
                /\ history[Len(history)].timestamp = stamp
                /\ history[Len(history)].source = O.source
           ELSE \A i \in DOMAIN history : history[i].seq # pushed

\* an insert with a timestamp of its own has purged what was stored before
\* and is the one observation left
C1_Witness ==
  /\ lastCall.op = "addPriceData"
  /\ lastCall.priceData.timestamp # 0
  /\ pushed >= 2
  /\ Len(HistoryOf(priceHistory, lastCall.token)) = 1
  /\ priceHistory[lastCall.token][1].seq = pushed

\* C2: in every reachable state each token's price sequence and each
\* token's volume sequence hold at most maxHistorySize entries.
C2_Capped ==
  /\ \A token \in DOMAIN priceHistory : Len(priceHistory[token]) <= config.maxHistorySize
  /\ \A token \in DOMAIN volumeHistory : Len(volumeHistory[token]) <= config.maxHistorySize

\* more observations were pushed than the store holds, and both sequences
\* are full
C2_Witness ==
  \E token \in DOMAIN priceHistory :
    /\ pushed > config.maxHistorySize
    /\ Len(priceHistory[token]) = config.maxHistorySize
    /\ Len(volumeHistory[token]) = config.maxHistorySize

\* the retained price sequence is in the order of the pushes
C3_InOrder ==
  \A token \in DOMAIN priceHistory :
    \A i, j \in DOMAIN priceHistory[token] :
      i < j => priceHistory[token][i].seq < priceHistory[token][j].seq

\* a step keeps of a token's price sequence, with the observation it pushes,
\* the ones that are not older than maxAge, and of these the latest pushed
\* maxHistorySize; a step that pushes nothing adds nothing
C3_EvictsEarliest ==
  \A token \in Tokens :
    LET old == HistoryOf(priceHistory, token)
        new == HistoryOf(priceHistory', token)
    IN  IF lastCall'.op = "addPriceData" /\ lastCall'.token = token /\ pushed' = pushed + 1
        THEN LET O == lastCall'.priceData
                 entry == [ price |-> O.price, volume |-> O.volume,
                            timestamp |-> IF O.timestamp = 0 THEN now ELSE O.timestamp,
                            source |-> O.source, weight |-> SourceWeight(O.source),
                            seq |-> pushed' ]
                 all == Append(old, entry)
                 fresh == SelectSeq(all, LAMBDA e : now - e.timestamp <= config.maxAge)
                 kept == Min(Len(fresh), config.maxHistorySize)
             IN  new = SubSeq(fresh, Len(fresh) - kept + 1, Len(fresh))
        ELSE \A i \in DOMAIN new : \E j \in DOMAIN old : new[i] = old[j]

\* C3: each token's price sequence is, in the order of the pushes, a
\* subsequence of the observations pushed for it: no step reorders what it
\* retains, and an insert over maxHistorySize evicts the earliest pushed.
C3_Subsequence == [](C3_InOrder) /\ [][C3_EvictsEarliest]_vars

\* the store is full of two observations of one source, pushed one after the
\* other, after an earlier one was evicted
C3_Witness ==
  \E token \in DOMAIN priceHistory :
    /\ Len(priceHistory[token]) = 2
    /\ pushed >= 3
    /\ priceHistory[token][1].seq = pushed - 1
    /\ priceHistory[token][2].seq = pushed
    /\ priceHistory[token][1].source = priceHistory[token][2].source
    /\ now - priceHistory[token][1].timestamp <= config.maxAge

\* the observations calculateTWAP averages at the clock value of the state:
\* those of the token's price sequence in the window that survive the
\* outlier filters, in ascending order of their timestamps
Survivors(token, windowArg) ==
  LET window == IF windowArg = 0 THEN config.twapWindow ELSE windowArg
      inWindow == SelectSeq(HistoryOf(priceHistory, token),
                    LAMBDA e : e.timestamp >= now - window)
  IN  SortByTimestamp(removeOutliers(inWindow, config))

\* the combined weights of these observations: time weight * source weight
CombinedWeights(survivors) ==
  [i \in DOMAIN survivors |->
    (IF i = Len(survivors) THEN now - survivors[i].timestamp
     ELSE survivors[i + 1].timestamp - survivors[i].timestamp) * survivors[i].weight]

\* C13: every successful calculateTWAP over surviving observations none of
\* which has a negative combined weight (their sum is then positive) returns
\* a price within [minPrice, maxPrice] of the surviving observations.
C13_TWAPInRange ==
  (result.op \in {"calculateTWAP", "getAggregatedPrice"} /\ result.twap.ok) =>
    LET survivors == Survivors(lastCall.token, lastCall.twapWindow)
        weights == CombinedWeights(survivors)
    IN  (\A i \in DOMAIN survivors : weights[i] >= 0) =>
          /\ SeqSum(weights) > 0
          /\ \A i \in DOMAIN survivors :
               result.twap.minPrice <= survivors[i].price
                 /\ survivors[i].price <= result.twap.maxPrice
          /\ \E i \in DOMAIN survivors : survivors[i].price = result.twap.minPrice
          /\ \E i \in DOMAIN survivors : survivors[i].price = result.twap.maxPrice
          /\ result.twap.minPrice * PriceUnit <= result.twap.price
          /\ result.twap.price <= result.twap.maxPrice * PriceUnit

\* a TWAP strictly between the prices of two observations, each with a
\* positive combined weight
C13_Witness ==
  /\ result.op = "calculateTWAP"
  /\ result.twap.ok
  /\ result.twap.dataPoints = 2
  /\ result.twap.minPrice = 1
  /\ result.twap.maxPrice = 2
  /\ result.twap.minPrice * PriceUnit < result.twap.price
  /\ result.twap.price < result.twap.maxPrice * PriceUnit
  /\ LET survivors == Survivors(lastCall.token, lastCall.twapWindow)
     IN  \A i \in DOMAIN survivors : CombinedWeights(survivors)[i] > 0

\* the observations of the token's price sequence in the window of a call
InWindow(token, windowArg) ==
  LET window == IF windowArg = 0 THEN config.twapWindow ELSE windowArg
  IN  SelectSeq(HistoryOf(priceHistory, token), LAMBDA e : e.timestamp >= now - window)

\* calculateTWAP has just returned or thrown, for a pair whose observations
\* in the window are at least minDataPoints, come from distinct sources and
\* share one timestamp
C15_SingleTimestamp ==
  /\ result.op \in {"calculateTWAP", "getAggregatedPrice"}
  /\ LET inWindow == InWindow(lastCall.token, lastCall.twapWindow)
     IN  /\ Len(inWindow) >= config.minDataPoints
         /\ \A i, j \in DOMAIN inWindow :
              /\ inWindow[i].timestamp = inWindow[j].timestamp
              /\ (i # j => inWindow[i].source # inWindow[j].source)

\* C15, as stated: when all observations of a pair within the window share
\* one timestamp, calculateTWAP fails with 'Total weight is zero' whenever
\* it is called.
C15_AsStated ==
  C15_SingleTimestamp => (~result.twap.ok /\ result.twap.error = "Total weight is zero")

\* C15, amended: when all observations of a pair within the window share
\* one timestamp, calculateTWAP fails with 'Total weight is zero' when it is
\* called at the clock value of that timestamp; called at another clock
\* value it succeeds, and returns the price of the last surviving
\* observation, the only one with a time weight.
C15_ZeroWeightAtTimestamp ==
  C15_SingleTimestamp =>
    LET inWindow == InWindow(lastCall.token, lastCall.twapWindow)
        survivors == Survivors(lastCall.token, lastCall.twapWindow)
    IN  IF now = inWindow[1].timestamp
        THEN ~result.twap.ok /\ result.twap.error = "Total weight is zero"
        ELSE /\ result.twap.ok
             /\ result.twap.dataPoints = Len(survivors)
             /\ result.twap.price = survivors[Len(survivors)].price * PriceUnit

\* two observations of two sources and two prices that share the clock
\* value as their timestamp: the call has failed
C15_Witness ==
  /\ C15_SingleTimestamp
  /\ result.op = "calculateTWAP"
  /\ result.twap.error = "Total weight is zero"
  /\ LET inWindow == InWindow(lastCall.token, lastCall.twapWindow)
     IN  /\ Len(inWindow) = 2
         /\ inWindow[1].price # inWindow[2].price
         /\ inWindow[1].timestamp = now

\* calculateVWAP or calculateTWAP has just returned or thrown, for a pair
\* that holds at least one but fewer than minDataPoints observations in the
\* window of the call
TooFew ==
  /\ result.op \in {"calculateVWAP", "calculateTWAP"}
  /\ LET inWindow == InWindow(lastCall.token,
                       IF result.op = "calculateVWAP" THEN lastCall.vwapWindow
                       ELSE lastCall.twapWindow)
     IN  Len(inWindow) >= 1 /\ Len(inWindow) < config.minDataPoints

\* the outcome of the call of the last step
Outcome == IF result.op = "calculateVWAP" THEN result.vwap ELSE result.twap

\* C16, as stated: when a pair holds at least one but fewer than
\* minDataPoints observations in the window, calculateVWAP and calculateTWAP
\* both fail with 'Insufficient data points', and the failed call leaves the
\* store and the counters as they were.
C16_AsStated ==
  [][(calls' = calls + 1 /\ TooFew') =>
       /\ ~Outcome'.ok
       /\ Outcome'.error = "Insufficient data points"
       /\ priceHistory' = priceHistory
       /\ volumeHistory' = volumeHistory
       /\ stats' = stats]_vars

\* calculateVWAP has just returned or thrown, for a pair whose volume
\* sequence holds fewer than minDataPoints entries in the window of the call
\* with a volume of minVolume or more
TooFewVolumes ==
  /\ result.op = "calculateVWAP"
  /\ LET window == IF lastCall.vwapWindow = 0 THEN config.vwapWindow
                   ELSE lastCall.vwapWindow
         passing == SelectSeq(HistoryOf(volumeHistory, lastCall.token),
                      LAMBDA e : e.timestamp >= now - window /\ e.volume >= config.minVolume)
     IN  Len(passing) < config.minDataPoints

\* C16, amended: calculateTWAP fails with 'Insufficient data points' when
\* the pair's price sequence holds at least one but fewer than
\* minDataPoints observations in the window; calculateVWAP fails when the
\* pair's volume sequence holds fewer than minDataPoints entries in the
\* window with a volume of minVolume or more, with 'Insufficient data
\* points' when the volume sequence holds an entry at all and with 'No
\* volume data available' when it holds none; the failed call leaves the
\* store and the counters as they were.
C16_TooFew ==
  [][(calls' = calls + 1
        /\ ((result'.op = "calculateTWAP" /\ TooFew') \/ TooFewVolumes')) =>
       /\ ~Outcome'.ok
       /\ Outcome'.error =
            (IF result'.op = "calculateVWAP"
                  /\ Len(HistoryOf(volumeHistory, lastCall'.token)) = 0
             THEN "No volume data available"
             ELSE "Insufficient data points")
       /\ priceHistory' = priceHistory
       /\ volumeHistory' = volumeHistory
       /\ stats' = stats]_vars

\* the one observation inserted carries a volume: calculateVWAP has failed
\* for want of data points, nothing is counted
C16_Witness ==
  /\ result.op = "calculateVWAP"
  /\ result.vwap.error = "Insufficient data points"
  /\ pushed = 1
  /\ Len(HistoryOf(priceHistory, lastCall.token)) = 1
  /\ Len(HistoryOf(volumeHistory, lastCall.token)) = 1
  /\ stats.vwapCalculations = 0

-----------------------------------------------------------------------------
(* The service with sensitive thresholds and room for five observations,   *)
(* so that the outlier filters have something to remove.  The clock stands *)
(* still: the observations bring their timestamps.                         *)

AggToken == "SOL/USDC"

\* four sources: two agree on the price, with different volumes, weights and
\* timestamps, one is far off, one reports a volume under the floor
AggInputs(t) ==
  { PriceData(1, 3, 0, "okx"),
    PriceData(1, 6, t - 1, "mock"),
    PriceData(9, 3, t - 2, "binance"),
    PriceData(2, 1, 0, "raydium") }

InitAgg ==
  /\ config = SensitiveConfig
  /\ sourceWeights = InitialSourceWeights
  /\ now = StartTime
  /\ priceHistory = EmptyMap
  /\ volumeHistory = EmptyMap
  /\ stats = InitialStats
  /\ result = NoResult
  /\ lastCall = Call("none", "none", 0, 0)
  /\ calls = 0
  /\ pushed = 0
  /\ InitCollector
  /\ InitFilters

NextAgg ==
  \/ \E d \in AggInputs(now) : pushed < MaxAggInserts /\ addPriceData(AggToken, d)
  \/ \E w \in Windows : CalculateVWAP(AggToken, w)
  \/ \E w \in Windows : CalculateTWAP(AggToken, w)
  \/ CalculateWeightedAverage(AggToken)
  \/ \E w \in Windows : GetAggregatedPrice(AggToken, w, w)

SpecAgg == InitAgg /\ [][NextAgg]_vars

-----------------------------------------------------------------------------
(* Properties of the calculations, in SpecAgg.  A state in which result.op *)
(* names a calculation is the state in which that call has just returned:  *)
(* the store and the clock are those the call has read.                    *)

\* C4: every successful calculateVWAP, calculateTWAP and
\* calculateWeightedAverage returns a confidence that is a number in [0, 1].
C4_ConfidenceInRange ==
  \A r \in {result.vwap, result.twap, result.weightedAverage} :
    r.ok => (~r.confidence.nan /\ r.confidence.v >= 0 /\ r.confidence.v <= 1000)

\* C5: among the calculations that succeeded, getAggregatedPrice recommends
\* the one with the largest confidence * log(1 + dataPoints), and of two with
\* equal scores the VWAP before the TWAP before the weighted average.
C5_RecommendsLargestScore ==
  (result.op = "getAggregatedPrice") =>
    LET succeeded == Candidates(result)
        best == result.recommendedPrice
        rank == [type \in {"vwap", "twap", "weightedAverage"} |->
                  CASE type = "vwap" -> 1 [] type = "twap" -> 2 [] OTHER -> 3]
        number(c) == c.confidence.v * LogTable[c.dataPoints + 1]
    IN  IF Len(succeeded) = 0 THEN best = NoCandidate
        ELSE /\ \E i \in DOMAIN succeeded : succeeded[i] = best
             /\ \A i \in DOMAIN succeeded :
                  succeeded[i].type # best.type =>
                    /\ ~best.confidence.nan
                    /\ ~succeeded[i].confidence.nan
                    /\ \/ number(best) > number(succeeded[i])
                       \/ /\ number(best) = number(succeeded[i])
                          /\ rank[best.type] < rank[succeeded[i].type]

\* C10: a successful calculateVWAP(P, window) returns sum(price * volume) /
\* sum(volume) and totalVolume = sum(volume) over the entries of P's volume
\* sequence with timestamp >= now - window and volume >= minVolume that
\* survive the outlier filters; dataPoints counts the survivors and
\* dataPoints + outliers the entries in the window and over the floor.
C10_VWAP ==
  (result.op \in {"calculateVWAP", "getAggregatedPrice"} /\ result.vwap.ok) =>
    LET window == IF lastCall.vwapWindow = 0 THEN config.vwapWindow ELSE lastCall.vwapWindow
        passing == SelectSeq(HistoryOf(volumeHistory, lastCall.token),
                     LAMBDA e : e.timestamp >= now - window /\ e.volume >= config.minVolume)
        survivors == removeOutliers(passing, config)
        sumPV == SeqSum([i \in DOMAIN survivors |-> survivors[i].price * survivors[i].volume])
        sumV == SeqSum([i \in DOMAIN survivors |-> survivors[i].volume])
    IN  /\ sumV > 0
        /\ result.vwap.totalVolume = sumV
        /\ 2 * Abs(result.vwap.price * sumV - sumPV * PriceUnit) <= sumV
        /\ result.vwap.dataPoints = Len(survivors)
        /\ result.vwap.dataPoints + result.vwap.outliers = Len(passing)

\* a VWAP over three observations that agree, after the filters removed the
\* fourth
C10_Witness ==
  /\ result.op = "calculateVWAP"
  /\ result.vwap.ok
  /\ result.vwap.outliers = 1
  /\ result.vwap.dataPoints = 3
  /\ result.vwap.price = PriceUnit
  /\ result.vwap.totalVolume >= 9

\* C11: a successful calculateTWAP(P, window) takes the observations of P
\* with timestamp >= now - window that survive the outlier filters, in
\* ascending order of their timestamps, weights each by (the next one's
\* timestamp - its own) * its source weight and the last by (now - its own)
\* * its source weight, and returns sum(price * weight) / sum(weight); an
\* observation with the timestamp of its successor adds nothing to either
\* sum.  dataPoints counts the survivors and dataPoints + outliers the
\* stored observations with timestamp >= now - window.
C11_TWAP ==
  (result.op \in {"calculateTWAP", "getAggregatedPrice"} /\ result.twap.ok) =>
    LET window == IF lastCall.twapWindow = 0 THEN config.twapWindow ELSE lastCall.twapWindow
        inWindow == SelectSeq(HistoryOf(priceHistory, lastCall.token),
                      LAMBDA e : e.timestamp >= now - window)
        survivors == SortByTimestamp(removeOutliers(inWindow, config))
        n == Len(survivors)
        until == [i \in 1..n |-> IF i = n THEN now ELSE survivors[i + 1].timestamp]
        counting == {i \in 1..n : until[i] # survivors[i].timestamp}
        weight == [i \in 1..n |-> (until[i] - survivors[i].timestamp) * survivors[i].weight]
        sumW == SeqSum([i \in 1..n |-> IF i \in counting THEN weight[i] ELSE 0])
        sumPW == SeqSum([i \in 1..n |->
                   IF i \in counting THEN survivors[i].price * weight[i] ELSE 0])
    IN  /\ \A i \in 1..(n - 1) : survivors[i].timestamp <= survivors[i + 1].timestamp
        /\ sumW # 0
        /\ 2 * Abs(result.twap.price * sumW - sumPW * PriceUnit) <= Abs(sumW)
        /\ result.twap.dataPoints = n
        /\ result.twap.dataPoints + result.twap.outliers = Len(inWindow)

\* a TWAP over three survivors after the filters removed the fourth: two of
\* the three carry the clock value as their timestamp and add nothing, the
\* price is that of the third
C11_Witness ==
  /\ result.op = "calculateTWAP"
  /\ result.twap.ok
  /\ result.twap.outliers = 1
  /\ result.twap.dataPoints = 3
  /\ result.twap.maxPrice = 2
  /\ result.twap.price = PriceUnit
  /\ Cardinality({i \in DOMAIN priceHistory[lastCall.token] :
                    priceHistory[lastCall.token][i].timestamp = now}) = 2

\* C12: the price of every successful calculateVWAP lies within the
\* minPrice and maxPrice it reports, which are the least and the largest
\* price of the surviving entries it used.
C12_VWAPInRange ==
  (result.op \in {"calculateVWAP", "getAggregatedPrice"} /\ result.vwap.ok) =>
    LET window == IF lastCall.vwapWindow = 0 THEN config.vwapWindow ELSE lastCall.vwapWindow
        passing == SelectSeq(HistoryOf(volumeHistory, lastCall.token),
                     LAMBDA e : e.timestamp >= now - window /\ e.volume >= config.minVolume)
        used == removeOutliers(passing, config)
    IN  /\ \A i \in DOMAIN used :
             result.vwap.minPrice <= used[i].price /\ used[i].price <= result.vwap.maxPrice
        /\ \E i \in DOMAIN used : used[i].price = result.vwap.minPrice
        /\ \E i \in DOMAIN used : used[i].price = result.vwap.maxPrice
        /\ result.vwap.minPrice * PriceUnit <= result.vwap.price
        /\ result.vwap.price <= result.vwap.maxPrice * PriceUnit

\* a VWAP strictly between the prices of the entries it used
C12_Witness ==
  /\ result.op = "calculateVWAP"
  /\ result.vwap.ok
  /\ result.vwap.minPrice = 1
  /\ result.vwap.maxPrice = 9
  /\ result.vwap.price = 3 * PriceUnit

\* C17: when no observation of the pair has a volume of minVolume or more,
\* calculateVWAP fails with 'No volume data available', both when the
\* observations were inserted with no volume or volume 0 and when their
\* volumes are not 0 but under the floor.
C17_NoVolumeData ==
  (/\ result.op = "calculateVWAP"
   /\ \A i \in DOMAIN HistoryOf(priceHistory, lastCall.token) :
        priceHistory[lastCall.token][i].volume < config.minVolume
   /\ \A i \in DOMAIN HistoryOf(volumeHistory, lastCall.token) :
        volumeHistory[lastCall.token][i].volume < config.minVolume) =>
    (~result.vwap.ok /\ result.vwap.error = "No volume data available")

-----------------------------------------------------------------------------
(* The collector over a service that keeps one observation per token: it   *)
(* is started and stopped, its requests succeed, fail and time out, and    *)
(* seconds pass.                                                           *)

MaxTicks == 2
MaxCollectTime == 6
MaxFailures == 3

\* the attempts that have failed so far
FailedAttempts ==
  SeqSum([r \in DOMAIN requests |->
    IF requests[r].phase \in {"waiting", "rejected"} THEN requests[r].attempt
    ELSE requests[r].attempt - 1])

\* new PriceAggregationService({maxAge, maxHistorySize, ...}), in seconds
CollectorServiceConfig ==
  [DefaultConfig EXCEPT !.maxAge = 300, !.maxHistorySize = 1,
                        !.twapWindow = 3600, !.vwapWindow = 3600]

\* what the endpoints answer: OKX a ticker or an envelope whose data is empty,
\* the others a ticker
Bodies(source) == IF source = "okx" THEN {"ticker", "empty"} ELSE {"ticker"}

InitCollecting ==
  /\ config = CollectorServiceConfig
  /\ sourceWeights = InitialSourceWeights
  /\ now = StartTime
  /\ priceHistory = EmptyMap
  /\ volumeHistory = EmptyMap
  /\ stats = InitialStats
  /\ result = NoResult
  /\ lastCall = Call("none", "none", 0, 0)
  /\ calls = 0
  /\ pushed = 0
  /\ InitCollector
  /\ InitFilters

NextCollector ==
  \/ Len(ticks) < MaxTicks /\ StartCollection
  \/ StopCollection
  \/ Len(ticks) < MaxTicks /\ IntervalFires
  \/ \E r \in DOMAIN requests : \E body \in Bodies(requests[r].source) : FetchSucceeds(r, body)
  \/ FailedAttempts < MaxFailures /\ \E r \in DOMAIN requests : FetchFails(r)
  \/ \E r \in DOMAIN requests : RetryAfterBackoff(r)
  \/ now < StartTime + MaxCollectTime /\ PassTime

SpecCollector == InitCollecting /\ [][NextCollector]_vars

-----------------------------------------------------------------------------
(* Properties of the collector, in SpecCollector *)

Running == {k \in DOMAIN ticks : ticks[k].running}

Pending == {r \in DOMAIN requests : requests[r].phase \in {"fetching", "waiting"}}

\* C6: the collector never has two runs of collectAllData in flight: a run
\* that is due while another is running does not start before that one ends.
C6_NoOverlap ==
  [][(isCollecting /\ Len(ticks') > Len(ticks)) =>
       (Running = {} /\ Cardinality({k \in DOMAIN ticks' : ticks'[k].running}) <= 1)]_vars

\* C7: once stopCollection() has returned the collector has no request in
\* flight and none sleeping in its backoff.
C7_StopCancels == ~isCollecting => Pending = {}

\* no request is rejected but by the failure of its own last attempt
C8_NoAbort ==
  \A r \in DOMAIN requests :
    requests[r].phase = "rejected" =>
      requests[r].attempt = CollectorConfig.retryAttempts /\ requests[r].response = "error"

\* a request whose fetch returns a ticker inserts its observation, whatever
\* the other requests of its run have come to
C8_Inserts ==
  \A r \in DOMAIN requests :
    (requests[r].phase = "fetching" /\ requests'[r].phase = "fulfilled"
       /\ requests'[r].response = "ticker") =>
      LET history == HistoryOf(priceHistory', requests[r].token)
      IN  /\ pushed' = pushed + 1
          /\ Len(history) > 0
          /\ history[Len(history)].seq = pushed'
          /\ history[Len(history)].source = requests[r].source
          /\ history[Len(history)].timestamp = now

\* C8: within a run of collectAllData one request's failure never aborts
\* another: every request whose fetch succeeds inserts its observation,
\* whatever the outcome and the order of the other requests of the run.
C8_Independent == [](C8_NoAbort) /\ [][C8_Inserts]_vars

\* the one run so far has ended with one request rejected after its last
\* attempt and the other fulfilled, its observation in the store
C8_Witness ==
  \E r, q \in DOMAIN requests :
    /\ Len(ticks) = 1
    /\ ~ticks[1].running
    /\ requests[r].phase = "rejected"
    /\ requests[q].phase = "fulfilled"
    /\ requests[q].response = "ticker"
    /\ pushed = 1
    /\ Len(HistoryOf(priceHistory, requests[q].token)) = 1
    /\ priceHistory[requests[q].token][1].source = requests[q].source
    /\ collectorStats.successfulRequests = 1
    /\ collectorStats.failedRequests = 1

\* a request is in one of its retryAttempts attempts
C9_AtMost ==
  \A r \in DOMAIN requests :
    requests[r].attempt >= 1 /\ requests[r].attempt <= CollectorConfig.retryAttempts

\* what a step makes of a request: a success ends it at the attempt it is
\* in, the k-th failure with k < retryAttempts puts it to sleep for 2^k
\* seconds, the next attempt starts when that sleep ends, and the failure of
\* attempt retryAttempts rejects it at once
C9_Retry ==
  \A r \in DOMAIN requests :
    LET a == requests[r]
        b == requests'[r]
        TwoToThe[k \in 0..CollectorConfig.retryAttempts] ==
          IF k = 0 THEN 1 ELSE 2 * TwoToThe[k - 1]
    IN  CASE a.phase = "fetching" /\ b.phase = "fulfilled" ->
               b.attempt = a.attempt /\ now' = now
          [] a.phase = "fetching" /\ b.phase = "waiting" ->
               /\ a.attempt < CollectorConfig.retryAttempts
               /\ b.attempt = a.attempt
               /\ b.due = now + TwoToThe[a.attempt]
          [] a.phase = "fetching" /\ b.phase = "rejected" ->
               /\ a.attempt = CollectorConfig.retryAttempts
               /\ b.attempt = a.attempt
               /\ now' = now
          [] a.phase = "waiting" /\ b.phase = "fetching" ->
               /\ now = a.due
               /\ now' = now
               /\ b.attempt = a.attempt + 1
          [] a.phase = "waiting" /\ b.phase = "waiting" ->
               b = a /\ now' <= a.due
          [] OTHER -> b = a

\* C9: a request is attempted at most retryAttempts times; it returns at
\* its first successful attempt, waits 2^k seconds after its k-th failure
\* when k < retryAttempts, and after the failure of attempt retryAttempts
\* the error is thrown without a further wait.
C9_Backoff == [](C9_AtMost) /\ [][C9_Retry]_vars

\* a request was rejected in its last attempt, after sleeps of 2 and 4 seconds
C9_Witness ==
  \E r \in DOMAIN requests :
    /\ requests[r].phase = "rejected"
    /\ requests[r].attempt = CollectorConfig.retryAttempts
    /\ now = ticks[requests[r].tick].started + 6

-----------------------------------------------------------------------------
(* The scenario "Basic VWAP" of the VWAP test: five observations of one    *)
(* pair from five sources, stamped within the last minute, then            *)
(* calculateVWAP.  Here a price is in cents and a volume in hundreds, so   *)
(* that a returned price is in units of 1/PriceUnit of a cent.             *)

ScenarioToken == "SOL/USDC"

\* testData: 177.50 / 1000, 177.45 / 1500, 177.55 / 800, 177.48 / 1200,
\* 177.52 / 900
BasicVWAPData ==
  << PriceData(17750, 10, 0, "okx"),
     PriceData(17745, 15, 0, "binance"),
     PriceData(17755, 8, 0, "coinbase"),
     PriceData(17748, 12, 0, "kraken"),
     PriceData(17752, 9, 0, "huobi") >>

\* timestamp: Date.now() - Math.random() * 60000, as milliseconds before now
ScenarioAges == {1, 30000, 59999}

\* the default configuration; the default minVolume of 0.01 is under one
\* volume unit of a hundred, every volume that is not 0 passes it
ScenarioConfig == [DefaultConfig EXCEPT !.minVolume = 1]

InitScenario ==
  /\ config = ScenarioConfig
  /\ sourceWeights = InitialSourceWeights
  /\ now = StartTime
  /\ priceHistory = EmptyMap
  /\ volumeHistory = EmptyMap
  /\ stats = InitialStats
  /\ result = NoResult
  /\ lastCall = Call("none", "none", 0, 0)
  /\ calls = 0
  /\ pushed = 0
  /\ InitCollector
  /\ InitFilters

\* testData.forEach(data => service.addPriceData(token, {...data, timestamp}))
InsertNext(age) ==
  /\ pushed < Len(BasicVWAPData)
  /\ addPriceData(ScenarioToken, [BasicVWAPData[pushed + 1] EXCEPT !.timestamp = now - age])

NextScenario ==
  \/ \E age \in ScenarioAges : InsertNext(age)
  \/ CalculateVWAP(ScenarioToken, 0)
  \/ now < StartTime + MaxAdvance /\ AdvanceClock

SpecScenario == InitScenario /\ [][NextScenario]_vars

\* C14, as stated: after the five inserts of the scenario calculateVWAP
\* returns a price of 177.4826 +- 0.0002 (177482600 +- 200 in the units of
\* the scenario) with 5 inputs used, 0 outliers and a total volume of 5400.
C14_AsStated ==
  (result.op = "calculateVWAP" /\ pushed = Len(BasicVWAPData)) =>
    /\ result.vwap.ok
    /\ Abs(result.vwap.price - 177482600) <= 200
    /\ result.vwap.dataPoints = 5
    /\ result.vwap.outliers = 0
    /\ result.vwap.totalVolume = 54

\* C14, amended: after the five inserts of the scenario calculateVWAP
\* returns a price of 177.4924 +- 0.0002 (958459 / 5400) with 5 inputs used,
\* 0 outliers and a total volume of 5400.
C14_BasicVWAP ==
  (result.op = "calculateVWAP" /\ pushed = Len(BasicVWAPData)) =>
    /\ result.vwap.ok
    /\ Abs(result.vwap.price - 177492400) <= 200
    /\ result.vwap.dataPoints = 5
    /\ result.vwap.outliers = 0
    /\ result.vwap.totalVolume = 54

\* the VWAP of the five observations: 177.492407
C14_Witness ==
  /\ result.op = "calculateVWAP"
  /\ pushed = Len(BasicVWAPData)
  /\ result.vwap.ok
  /\ result.vwap.price = 177492407
  /\ result.vwap.minPrice = 17745
  /\ result.vwap.maxPrice = 17755

-----------------------------------------------------------------------------
(* The outlier filters called on their own.  The store holds one pair with *)
(* up to MaxOutlierLen observations of the last ticks, each with a volume  *)
(* above the floor; a caller hands the pair's price sequence to            *)
(* removeOutliersZScore, removeOutliersIQR or removeOutliers, hands what a *)
(* filter returned to the same filter once more; or a caller queries VWAP  *)
(* and TWAP, which filter on their own.                                    *)

OutlierToken == "SOL/USDC"

\* the prices observed: two close ones and one far off
OutlierPrices == {1, 2, 9}

\* the default thresholds (2.5, 1.5), the sensitive ones (1.5, 1.0), and the
\* sensitive ones with minDataPoints above the lengths at which a filter
\* starts to remove
OutlierConfigs ==
  { DefaultConfig,
    [DefaultConfig EXCEPT !.zScoreNum = 3, !.zScoreDen = 2, !.iqrNum = 1, !.iqrDen = 1],
    [DefaultConfig EXCEPT !.zScoreNum = 3, !.zScoreDen = 2, !.iqrNum = 1, !.iqrDen = 1,
                          !.minDataPoints = 6] }

\* the i-th of n observations with these prices, one tick apart, the last
\* one a tick before t, from two sources in turn
OutlierObservation(prices, i, t) ==
  normalizePriceData(
    PriceData(prices[i], 3, t - (Len(prices) - i + 1),
              IF i % 2 = 1 THEN "okx" ELSE "binance"), t)

OutlierPriceHistory(prices, t) ==
  [i \in DOMAIN prices |-> PriceEntry(OutlierObservation(prices, i, t), i)]

OutlierVolumeHistory(prices, t) ==
  [i \in DOMAIN prices |-> VolumeEntry(OutlierObservation(prices, i, t), i)]

InitOutliers ==
  /\ config \in OutlierConfigs
  /\ sourceWeights = InitialSourceWeights
  /\ now = StartTime
  /\ \E n \in 0..MaxOutlierLen : \E prices \in [1..n -> OutlierPrices] :
       /\ priceHistory = (OutlierToken :> OutlierPriceHistory(prices, StartTime))
       /\ volumeHistory = (OutlierToken :> OutlierVolumeHistory(prices, StartTime))
       /\ pushed = n
  /\ stats = InitialStats
  /\ result = NoResult
  /\ lastCall = Call("none", "none", 0, 0)
  /\ calls = 0
  /\ InitCollector
  /\ InitFilters

\* the array a filter is handed: the pair's price sequence, or what the same
\* filter returned the call before
FilterArgument(method, again) ==
  IF again THEN filterResult ELSE HistoryOf(priceHistory, OutlierToken)

\* a caller that has made no query calls one filter, and may call it once
\* more on what it returned
FilterCallable(method, again) ==
  /\ calls = 0
  /\ IF again THEN filterCall.method = method /\ ~filterCall.again
     ELSE filterCall = NoFilterCall

RemoveOutliersZScore(again) ==
  /\ FilterCallable("removeOutliersZScore", again)
  /\ \E data \in {FilterArgument("removeOutliersZScore", again)} :
       /\ filterCall' = [method |-> "removeOutliersZScore", again |-> again]
       /\ filterData' = data
       /\ filterResult' = removeOutliersZScore(data, Prices(data), config.zScoreNum, config.zScoreDen)
  /\ UNCHANGED serviceVars
  /\ UNCHANGED collectorVars

RemoveOutliersIQR(again) ==
  /\ FilterCallable("removeOutliersIQR", again)
  /\ \E data \in {FilterArgument("removeOutliersIQR", again)} :
       /\ filterCall' = [method |-> "removeOutliersIQR", again |-> again]
       /\ filterData' = data
       /\ filterResult' = removeOutliersIQR(data, config.iqrNum, config.iqrDen)
  /\ UNCHANGED serviceVars
  /\ UNCHANGED collectorVars

RemoveOutliers(again) ==
  /\ FilterCallable("removeOutliers", again)
  /\ \E data \in {FilterArgument("removeOutliers", again)} :
       /\ filterCall' = [method |-> "removeOutliers", again |-> again]
       /\ filterData' = data
       /\ filterResult' = removeOutliers(data, config)
       /\ stats' = [stats EXCEPT !.outliersDetected = @ + OutliersRemoved(data, config)]
  /\ UNCHANGED <<config, sourceWeights, now, priceHistory, volumeHistory, result, lastCall, calls, pushed>>
  /\ UNCHANGED collectorVars

NextOutliers ==
  \/ \E again \in BOOLEAN : RemoveOutliersZScore(again)
  \/ \E again \in BOOLEAN : RemoveOutliersIQR(again)
  \/ \E again \in BOOLEAN : RemoveOutliers(again)
  \/ filterCall = NoFilterCall /\ CalculateVWAP(OutlierToken, 0)
  \/ filterCall = NoFilterCall /\ CalculateTWAP(OutlierToken, 0)

SpecOutliers == InitOutliers /\ [][NextOutliers]_vars

-----------------------------------------------------------------------------
(* Properties of the outlier filters, in SpecOutliers.  A state in which   *)
(* filterCall.method names a filter is the state in which that call has    *)
(* just returned filterResult for filterData.                              *)

AllEqual(data) == \A i, j \in DOMAIN data : data[i].price = data[j].price

\* C18, as stated: a filter applied to what it returned returns it unchanged.
C18_AsStated ==
  (filterCall.again /\ filterCall.method \in {"removeOutliersZScore", "removeOutliersIQR"}) =>
    filterResult = filterData

\* C18, amended: the z-score filter applied to what it returned returns it
\* unchanged when that holds fewer than 3 values or only equal values, the
\* IQR filter when that holds fewer than 4 values or only equal values;
\* otherwise a second application may remove further values.
C18_IdempotentWhenSettled ==
  /\ (filterCall.again /\ filterCall.method = "removeOutliersZScore"
        /\ (Len(filterData) < 3 \/ AllEqual(filterData))) =>
       filterResult = filterData
  /\ (filterCall.again /\ filterCall.method = "removeOutliersIQR"
        /\ (Len(filterData) < 4 \/ AllEqual(filterData))) =>
       filterResult = filterData

\* the z-score filter removed a value, was applied to the three or more
\* equal values it had left, and returned them
C18_Witness ==
  /\ filterCall.again
  /\ filterCall.method = "removeOutliersZScore"
  /\ Len(filterData) < Len(HistoryOf(priceHistory, OutlierToken))
  /\ Len(filterData) >= 3
  /\ AllEqual(filterData)
  /\ filterResult = filterData

\* the values of data the z-score filter keeps: all of them when they are
\* fewer than 3 or all equal, else those within threshold standard deviations
\* of the mean, |v - S/n|^2 <= (num/den)^2 * (n*Q - S^2)/n^2 for the sum S
\* and the sum of squares Q of the n prices
ZScoreSurvivors(data, cfg) ==
  LET n == Len(data)
      S == SeqSum(Prices(data))
      Q == SumSquares(Prices(data))
      Keep(d) == (n * d.price - S) * (n * d.price - S) * cfg.zScoreDen * cfg.zScoreDen
                   <= cfg.zScoreNum * cfg.zScoreNum * (n * Q - S * S)
  IN  IF n < 3 \/ AllEqual(data) THEN data ELSE SelectSeq(data, Keep)

\* the values of data the IQR filter keeps: all of them when they are fewer
\* than 4, else those within [q1 - m * iqr, q3 + m * iqr] for the quartiles
\* of data itself
IQRSurvivors(data, cfg) ==
  LET sorted == SortNumbers(Prices(data))
      q1 == Quantile2(sorted, 1)
      q3 == Quantile2(sorted, 3)
      Keep(d) == /\ cfg.iqrDen * (q1 - 2 * d.price) <= cfg.iqrNum * (q3 - q1)
                 /\ cfg.iqrDen * (2 * d.price - q3) <= cfg.iqrNum * (q3 - q1)
  IN  IF Len(data) < 4 THEN data ELSE SelectSeq(data, Keep)

\* z-score filter first, IQR filter on its survivors, for minDataPoints
\* values or more
TwoStageSurvivors(data, cfg) ==
  IF Len(data) < cfg.minDataPoints THEN data
  ELSE IQRSurvivors(ZScoreSurvivors(data, cfg), cfg)

\* the volume entries of a pair calculateVWAP takes as its inputs
VWAPInputs(token) ==
  SelectSeq(HistoryOf(volumeHistory, token),
    LAMBDA e : e.timestamp >= now - config.vwapWindow /\ e.volume >= config.minVolume)

\* C19: removeOutliers returns the input unchanged when it holds fewer than
\* minDataPoints elements, else what the IQR filter keeps of what the
\* z-score filter keeps of the input, in the input's order; the z-score
\* filter keeps everything of fewer than 3 values or of equal values, the
\* IQR filter everything of fewer than 4 values; and the outliers count a
\* successful VWAP or TWAP reports is the number of its inputs minus the
\* number of survivors.
C19_TwoStage ==
  /\ filterCall.method = "removeOutliers" =>
       filterResult = TwoStageSurvivors(filterData, config)
  /\ filterCall.method = "removeOutliersZScore" =>
       filterResult = ZScoreSurvivors(filterData, config)
  /\ filterCall.method = "removeOutliersIQR" =>
       filterResult = IQRSurvivors(filterData, config)
  /\ filterCall.method # "none" =>
       \A i, j \in DOMAIN filterResult :
         i < j => \E k, l \in DOMAIN filterData :
                    k < l /\ filterData[k] = filterResult[i] /\ filterData[l] = filterResult[j]
  /\ (result.op = "calculateTWAP" /\ result.twap.ok) =>
       LET inputs == InWindow(OutlierToken, 0)
       IN  /\ result.twap.dataPoints = Len(TwoStageSurvivors(inputs, config))
           /\ result.twap.outliers = Len(inputs) - Len(TwoStageSurvivors(inputs, config))
  /\ (result.op = "calculateVWAP" /\ result.vwap.ok) =>
       LET inputs == VWAPInputs(OutlierToken)
       IN  /\ result.vwap.dataPoints = Len(TwoStageSurvivors(inputs, config))
           /\ result.vwap.outliers = Len(inputs) - Len(TwoStageSurvivors(inputs, config))

\* removeOutliers was handed six values of which the z-score filter removes
\* one and the IQR filter one of the five survivors
C19_Witness ==
  /\ filterCall.method = "removeOutliers"
  /\ ~filterCall.again
  /\ Len(filterData) = 6
  /\ Len(ZScoreSurvivors(filterData, config)) = 5
  /\ Len(filterResult) = 4

-----------------------------------------------------------------------------
(* calculateVWAP under multiplied volumes, in SpecAgg.  Had every           *)
(* observation of a pair been inserted with c times its volume, the pair's *)
(* volume sequence would hold the same entries with c times the volume:    *)
(* addPriceData pushes an entry when the volume is truthy, which c * v is  *)
(* when v is, and cleanupOldData looks at timestamps and lengths only.     *)

\* the positive constants num / den
C20_Multipliers == { [num |-> 2, den |-> 1], [num |-> 3, den |-> 1], [num |-> 1, den |-> 3] }

\* c times every volume is a volume of the model's unit
C20_Multipliable(volHist, c) ==
  \A i \in DOMAIN volHist : (volHist[i].volume * c.num) % c.den = 0

C20_MultipliedVolumes(volHist, c) ==
  [i \in DOMAIN volHist |->
    [volHist[i] EXCEPT !.volume = (volHist[i].volume * c.num) \div c.den]]

\* calculateVWAP of the last call, had the volumes been multiplied by c
C20_MultipliedVWAP(c) ==
  calculateVWAP(C20_MultipliedVolumes(HistoryOf(volumeHistory, lastCall.token), c),
                now, lastCall.vwapWindow, config)

\* every volume passes the floor exactly when c times the volume does
C20_FloorPreserved(volHist, c, cfg) ==
  \A i \in DOMAIN volHist :
    (volHist[i].volume >= cfg.minVolume) <=>
      (volHist[i].volume * c.num >= cfg.minVolume * c.den)

\* C20, as stated: multiplying the volume of every observation of a pair by
\* one positive constant leaves the outcome of calculateVWAP (success or
\* failure, and the price) unchanged.
C20_AsStated ==
  result.op = "calculateVWAP" =>
    \A c \in C20_Multipliers :
      C20_Multipliable(HistoryOf(volumeHistory, lastCall.token), c) =>
        /\ C20_MultipliedVWAP(c).ok = result.vwap.ok
        /\ C20_MultipliedVWAP(c).price = result.vwap.price

\* C20, amended: multiplying the volume of every observation of a pair by
\* one positive constant leaves the outcome of calculateVWAP (success or
\* failure, and the price) unchanged, provided every volume passes the
\* floor minVolume exactly when its multiple does.
C20_ScaleInvariant ==
  result.op = "calculateVWAP" =>
    \A c \in C20_Multipliers :
      (/\ C20_Multipliable(HistoryOf(volumeHistory, lastCall.token), c)
       /\ C20_FloorPreserved(HistoryOf(volumeHistory, lastCall.token), c, config)) =>
        /\ C20_MultipliedVWAP(c).ok = result.vwap.ok
        /\ C20_MultipliedVWAP(c).price = result.vwap.price

\* a VWAP over observations of different prices and different volumes, all
\* of which stay over the floor when doubled
C20_Witness ==
  /\ result.op = "calculateVWAP"
  /\ result.vwap.ok
  /\ result.vwap.minPrice < result.vwap.maxPrice
  /\ \E i, j \in DOMAIN HistoryOf(volumeHistory, lastCall.token) :
       HistoryOf(volumeHistory, lastCall.token)[i].volume
         # HistoryOf(volumeHistory, lastCall.token)[j].volume
  /\ C20_FloorPreserved(HistoryOf(volumeHistory, lastCall.token), [num |-> 2, den |-> 1], config)
  /\ C20_MultipliedVWAP([num |-> 2, den |-> 1]).price = result.vwap.price

-----------------------------------------------------------------------------
(* The service with sensitive thresholds whose callers insert observations *)
(* that bring their timestamp, any of them more than once, while the clock *)
(* advances, and query the TWAP and the aggregated price.                  *)

\* two sources that report at the same instant, and two later ones, one of
\* them without a volume
DuplicateInputs ==
  { PriceData(1, 3, StartTime, "okx"),
    PriceData(9, 3, StartTime, "binance"),
    PriceData(2, 3, StartTime + 1, "mock"),
    PriceData(1, 0, StartTime + 1, "raydium") }

NextDuplicates ==
  \/ \E d \in DuplicateInputs :
       pushed < MaxAggInserts /\ d.timestamp <= now /\ addPriceData(AggToken, d)
  \/ CalculateTWAP(AggToken, 0)
  \/ \E w \in Windows : GetAggregatedPrice(AggToken, w, w)
  \/ now < StartTime + MaxAdvance /\ AdvanceClock

SpecDuplicates == InitAgg /\ [][NextDuplicates]_vars

\* entry j of the pair's price sequence repeats an earlier entry: same
\* price, timestamp and source
IsDuplicate(history, j) ==
  \E i \in 1..(j - 1) :
    /\ history[i].price = history[j].price
    /\ history[i].timestamp = history[j].timestamp
    /\ history[i].source = history[j].source

\* the sequence without its entry j: the pair's price sequence, had the
\* observation not been inserted again
WithoutEntry(history, j) ==
  SubSeq(history, 1, j - 1) \o SubSeq(history, j + 1, Len(history))

AloneAtTimestamp(history, j) ==
  \A i \in DOMAIN history :
    history[i].timestamp = history[j].timestamp =>
      /\ history[i].price = history[j].price
      /\ history[i].source = history[j].source

\* the outlier filters keep the same observations with and without entry j
SameSurvivors(history, j) ==
  SelectSeq(removeOutliers(TWAPRelevant(history, now, config.twapWindow), config),
            LAMBDA e : e.seq # history[j].seq)
    = removeOutliers(TWAPRelevant(WithoutEntry(history, j), now, config.twapWindow), config)

-----------------------------------------------------------------------------
(* Properties of getAggregatedPrice, in SpecDuplicates *)

\* C22: getAggregatedPrice recommends the source-weighted mean only when
\* calculateVWAP and calculateTWAP have both failed.
C22_FallbackOnly ==
  (result.op = "getAggregatedPrice" /\ result.recommendedPrice.type = "weightedAverage") =>
    (~result.vwap.ok /\ ~result.twap.ok)

-----------------------------------------------------------------------------
(* Properties of getAggregatedPrice, in Spec *)

\* C23: getAggregatedPrice returns a result whatever fails: each of the
\* three algorithms has been computed on the pair's sequences, whether or not
\* another one failed, and when all three failed the recommended price is the
\* error 'No valid price calculations available' and the result carries the
\* failure reason of each algorithm.
C23_AllFail ==
  result.op = "getAggregatedPrice" =>
    /\ result.vwap = calculateVWAP(HistoryOf(volumeHistory, lastCall.token), now,
                                   lastCall.vwapWindow, config)
    /\ result.twap = calculateTWAP(HistoryOf(priceHistory, lastCall.token), now,
                                   lastCall.twapWindow, config)
    /\ result.weightedAverage
         = calculateWeightedAverage(HistoryOf(priceHistory, lastCall.token), config)
    /\ (~result.vwap.ok /\ ~result.twap.ok /\ ~result.weightedAverage.ok) =>
         /\ result.recommendedPrice.type = "error"
         /\ result.recommendedPrice.error = "No valid price calculations available"
         /\ result.vwap.error \in {"No volume data available", "Insufficient data points"}
         /\ result.twap.error = "No price data available"
         /\ result.weightedAverage.error = "No price data available"

\* getAggregatedPrice for a pair whose only observation was purged at its
\* insert: the pair has sequences, they are empty, and all three algorithms
\* have failed
C23_Witness ==
  /\ result.op = "getAggregatedPrice"
  /\ lastCall.token \in DOMAIN priceHistory
  /\ ~result.vwap.ok /\ ~result.twap.ok /\ ~result.weightedAverage.ok
  /\ result.recommendedPrice.type = "error"

-----------------------------------------------------------------------------
(* Scenarios and frame properties of the collector, in SpecCollector *)

\* the one run of collectAllData so far has ended, source `healthy` has
\* answered with a ticker and source `failing` has failed in every attempt
C24_Isolated(healthy, failing) ==
  /\ Len(ticks) = 1
  /\ ~ticks[1].running
  /\ requests[healthy].phase = "fulfilled"
  /\ requests[healthy].response = "ticker"
  /\ requests[failing].phase = "rejected"

\* C24, as stated: after one tick with one healthy and one always failing
\* source the healthy source's observation is in the store, successfulRequests
\* is 1 and failedRequests is the number of retries made for the failing
\* source.
C24_AsStated ==
  \A healthy, failing \in DOMAIN requests :
    C24_Isolated(healthy, failing) =>
      /\ \E i \in DOMAIN HistoryOf(priceHistory, requests[healthy].token) :
           priceHistory[requests[healthy].token][i].source = requests[healthy].source
      /\ collectorStats.successfulRequests = 1
      /\ collectorStats.failedRequests = requests[failing].attempt - 1

\* C24, amended: after one tick with one healthy and one always failing
\* source the healthy source's observation is in the store, successfulRequests
\* is 1 and failedRequests is 1: the failing request is counted once, whatever
\* the number of its retries.
C24_TickIsolation ==
  \A healthy, failing \in DOMAIN requests :
    C24_Isolated(healthy, failing) =>
      /\ \E i \in DOMAIN HistoryOf(priceHistory, requests[healthy].token) :
           priceHistory[requests[healthy].token][i].source = requests[healthy].source
      /\ collectorStats.successfulRequests = 1
      /\ collectorStats.failedRequests = 1
      /\ collectorStats.totalRequests = 2

\* Binance has failed three times, with two retries, OKX has answered, and
\* the run has ended
C24_Witness ==
  \E healthy, failing \in DOMAIN requests :
    /\ C24_Isolated(healthy, failing)
    /\ requests[healthy].source = "okx"
    /\ requests[failing].source = "binance"
    /\ requests[failing].attempt = CollectorConfig.retryAttempts
    /\ priceHistory[requests[healthy].token][1].source = "okx"
    /\ collectorStats.failedRequests = 1

-----------------------------------------------------------------------------
(* One run of collectAllData over the same service, in which every attempt *)
(* of every request may fail and an endpoint may answer with a body that   *)
(* has no price.                                                           *)

\* what the endpoints answer: a ticker, a ticker without price and volume,
\* and OKX also an envelope whose data is empty
AdapterBodies(source) ==
  IF source = "okx" THEN {"ticker", "noprice", "empty"} ELSE {"ticker", "noprice"}

NextTick ==
  \/ ticks = <<>> /\ StartCollection
  \/ StopCollection
  \/ \E r \in DOMAIN requests : \E body \in AdapterBodies(requests[r].source) :
       FetchSucceeds(r, body)
  \/ \E r \in DOMAIN requests : FetchFails(r)
  \/ \E r \in DOMAIN requests : RetryAfterBackoff(r)
  \/ now < StartTime + MaxCollectTime /\ PassTime

SpecTick == InitCollecting /\ [][NextTick]_vars

\* a step in which a request ends in failure leaves the store as it was
C25_FailureInsertsNothing ==
  (\E r \in DOMAIN requests : requests[r].phase # "rejected" /\ requests'[r].phase = "rejected") =>
    /\ priceHistory' = priceHistory
    /\ volumeHistory' = volumeHistory
    /\ pushed' = pushed

\* after a run in which every request failed the store is what it was when
\* the run started
C25_FailedTick ==
  (requests # <<>> /\ \A r \in DOMAIN requests : requests[r].phase = "rejected") =>
    /\ priceHistory = EmptyMap
    /\ volumeHistory = EmptyMap
    /\ pushed = 0

\* C25: a request that ends in failure, after its retries, inserts no
\* observation, and a tick in which every request fails leaves the price and
\* volume sequences of every pair unchanged.
C25_FailedIsSkipped == [](C25_FailedTick) /\ [][C25_FailureInsertsNothing]_vars

\* the run has ended with both requests rejected after their last attempt
C25_Witness ==
  /\ Len(ticks) = 1
  /\ ~ticks[1].running
  /\ Len(requests) = 2
  /\ \A r \in DOMAIN requests : requests[r].phase = "rejected"
  /\ collectorStats.failedRequests = 2
  /\ priceHistory = EmptyMap

\* C26: a response from which no price can be parsed never causes an
\* observation to be inserted, and its request is counted as failed, not as
\* successful.
C26_ParseFailure ==
  \A r \in DOMAIN requests :
    requests[r].response = "noprice" =>
      /\ requests[r].phase = "rejected"
      /\ \A i \in DOMAIN HistoryOf(priceHistory, requests[r].token) :
           priceHistory[requests[r].token][i].source # requests[r].source

-----------------------------------------------------------------------------
(* The fan-out of one run of collectAllData over pairs that were added     *)
(* with addTokenMapping.                                                   *)

\* the largest number of pairs the collector is given
MaxPairs == 33

\* addTokenMapping(token, mappings), with a mapping for every source
addTokenMapping(token) ==
  /\ tokenMappings' =
       IF \E i \in DOMAIN tokenMappings : tokenMappings[i] = token
       THEN tokenMappings ELSE Append(tokenMappings, token)
  /\ UNCHANGED <<isCollecting, collectInterval, ticks, requests, collectorStats>>
  /\ UNCHANGED serviceVars
  /\ UNCHANGED filterVars

\* the pairs are added one after the other, named by their number
NextFanOut ==
  \/ Len(tokenMappings) < MaxPairs /\ addTokenMapping(ToString(Len(tokenMappings) + 1))
  \/ ticks = <<>> /\ StartCollection
  \/ StopCollection

SpecFanOut == InitCollecting /\ [][NextFanOut]_vars

\* C27: at no time are more than 64 collector requests in flight (their
\* axios.get called and not returned), whatever the number of configured
\* pairs and enabled sources.
C27_AtMost64 ==
  Cardinality({r \in DOMAIN requests : requests[r].phase = "fetching"}) <= 64

-----------------------------------------------------------------------------
(* Properties of the store, in SpecAgg *)

\* C28: in every reachable state every observation held in a pair's volume
\* sequence has a volume of minVolume or more: an insert appends to the
\* volume sequence only if the observation's volume passes the floor.
C28_VolumeFloor ==
  \A i \in DOMAIN HistoryOf(volumeHistory, AggToken) :
    volumeHistory[AggToken][i].volume >= config.minVolume

-----------------------------------------------------------------------------
(* Frame properties of the queries, in Spec *)

\* a step of calculateVWAP, calculateTWAP, calculateWeightedAverage or
\* getAggregatedPrice leaves every pair's price and volume sequence as it was
C29_QueryFrame ==
  (calls' = calls + 1) =>
    /\ lastCall'.op \in {"calculateVWAP", "calculateTWAP", "calculateWeightedAverage",
                         "getAggregatedPrice"}
    /\ priceHistory' = priceHistory
    /\ volumeHistory' = volumeHistory
    /\ now' = now

\* what a query returned is what the same query returns when it is repeated
\* at the same instant with no insert in between
C29_Repeatable ==
  /\ result.op = "calculateVWAP" =>
       result.vwap = calculateVWAP(HistoryOf(volumeHistory, lastCall.token), now,
                                   lastCall.vwapWindow, config)
  /\ result.op = "calculateTWAP" =>
       result.twap = calculateTWAP(HistoryOf(priceHistory, lastCall.token), now,
                                   lastCall.twapWindow, config)
  /\ result.op = "calculateWeightedAverage" =>
       result.weightedAverage
         = calculateWeightedAverage(HistoryOf(priceHistory, lastCall.token), config)
  /\ result.op = "getAggregatedPrice" =>
       result = [Calculated(lastCall.token, lastCall.vwapWindow, lastCall.twapWindow)
                   EXCEPT !.recommendedPrice = selectBestPrice(
                     Calculated(lastCall.token, lastCall.vwapWindow, lastCall.twapWindow))]

-----------------------------------------------------------------------------
(* Atomicity of the inserts of the collector, in SpecCollector.  A query   *)
(* is a synchronous call: what it can see of the store is the store of a   *)
(* state between two steps.                                                *)

\* no state shows a pair's store between the append and the truncation of an
\* insert, nor a price entry that came with a volume without its volume entry
C30_Atomic ==
  \A token \in DOMAIN priceHistory :
    /\ Len(priceHistory[token]) <= config.maxHistorySize
    /\ Len(HistoryOf(volumeHistory, token)) <= config.maxHistorySize
    /\ \A i \in DOMAIN priceHistory[token] :
         priceHistory[token][i].volume # 0 =>
           \E j \in DOMAIN HistoryOf(volumeHistory, token) :
             /\ volumeHistory[token][j].seq = priceHistory[token][i].seq
             /\ volumeHistory[token][j].volume = priceHistory[token][i].volume

\* every insert so far is the insert of a request that was answered with a
\* ticker, and every such request has made its insert
C30_NoneLost ==
  pushed = Cardinality({r \in DOMAIN requests :
                          requests[r].phase = "fulfilled" /\ requests[r].response = "ticker"})

\* when a request completes with a ticker its observation is the last of the
\* pair's price sequence and of its volume sequence
C30_Appended ==
  \A r \in DOMAIN requests :
    (/\ r \in DOMAIN requests'
     /\ requests[r].phase = "fetching"
     /\ requests'[r].phase = "fulfilled"
     /\ requests'[r].response = "ticker") =>
      LET history == HistoryOf(priceHistory', requests[r].token)
          volHist == HistoryOf(volumeHistory', requests[r].token)
      IN  /\ pushed' = pushed + 1
          /\ Len(history) > 0
          /\ history[Len(history)].seq = pushed'
          /\ history[Len(history)].source = requests[r].source
          /\ history[Len(history)].timestamp = now
          /\ Len(volHist) > 0
          /\ volHist[Len(volHist)].seq = pushed'

\* C30: in any interleaving of request completions and queries every insert
\* is atomic and none is lost: no query sees a pair's store between the
\* append and the truncation of an insert, nor with a price entry appended
\* and its volume entry missing, and every successful fetch's observation has
\* been appended when its request completes.
C30_AtomicInserts == [](C30_Atomic /\ C30_NoneLost) /\ [][C30_Appended]_vars

\* a run is still waiting for one of its requests while both requests of the
\* next run have completed with a ticker for the same pair: the store holds
\* the last observation in both sequences
C30_Witness ==
  /\ Len(ticks) = 2
  /\ ticks[1].running
  /\ \E r1, r2 \in DOMAIN requests :
       /\ requests[r1].tick = 1 /\ requests[r1].phase = "fulfilled"
       /\ requests[r1].response = "ticker"
       /\ requests[r2].tick = 1 /\ requests[r2].phase \in {"fetching", "waiting"}
  /\ \A r \in DOMAIN requests :
       requests[r].tick = 2 =>
         requests[r].phase = "fulfilled" /\ requests[r].response = "ticker"
  /\ pushed = 3
  /\ Len(priceHistory["SOL/USDC"]) = 1
  /\ priceHistory["SOL/USDC"][1].seq = 3
  /\ volumeHistory["SOL/USDC"][1].seq = 3

-----------------------------------------------------------------------------
(* Properties of addPriceData as a step, in Spec *)

\* what a step of addPriceData does: for an input that new Decimal rejects
\* nothing, for any other input one more processed price and a pair whose
\* sequences are purged and within the capacity
C31_Insert ==
  (lastCall'.op = "addPriceData") =>
    IF DecimalThrows(lastCall'.priceData)
    THEN /\ priceHistory' = priceHistory
         /\ volumeHistory' = volumeHistory
         /\ stats' = stats
    ELSE /\ stats'.totalPricesProcessed = stats.totalPricesProcessed + 1
         /\ lastCall'.token \in DOMAIN priceHistory'
         /\ lastCall'.token \in DOMAIN volumeHistory'
         /\ Len(priceHistory'[lastCall'.token]) <= config.maxHistorySize
         /\ Len(volumeHistory'[lastCall'.token]) <= config.maxHistorySize
         /\ \A i \in DOMAIN priceHistory'[lastCall'.token] :
              now - priceHistory'[lastCall'.token][i].timestamp <= config.maxAge
         /\ \A i \in DOMAIN volumeHistory'[lastCall'.token] :
              now - volumeHistory'[lastCall'.token][i].timestamp <= config.maxAge

\* C31: addPriceData never throws; when the input cannot be normalised the
\* store and all counters are left unchanged, and otherwise
\* totalPricesProcessed increases by exactly one and the store invariants
\* (age purge, capacity) hold on return.
C31_NeverFails == [][C31_Insert]_vars

\* addPriceData has returned from an input with a price that is no number,
\* with observations in the store and calls counted
C31_Witness ==
  /\ lastCall.op = "addPriceData"
  /\ DecimalThrows(lastCall.priceData)
  /\ Len(HistoryOf(priceHistory, lastCall.token)) = 2
  /\ stats.totalPricesProcessed = 2

-----------------------------------------------------------------------------
(* The weighted average over a service with the default configuration that *)
(* receives more than ten observations and whose weight table is changed   *)
(* once, as USAGE.md shows: service.sourceWeights.set(source, weight).     *)

\* the largest number of observations inserted
MaxWeightInserts == 11

\* service.sourceWeights.set(source, weight)
SetSourceWeight(source, weight) ==
  /\ sourceWeights' = Put(sourceWeights, source, weight)
  /\ result' = NoResult
  /\ lastCall' = Call("setSourceWeight", "none", 0, 0)
  /\ UNCHANGED <<config, now, priceHistory, volumeHistory, stats, calls, pushed>>
  /\ UNCHANGED collectorVars
  /\ UNCHANGED filterVars

InitWeights ==
  /\ config = DefaultConfig
  /\ sourceWeights = InitialSourceWeights
  /\ now = StartTime
  /\ priceHistory = EmptyMap
  /\ volumeHistory = EmptyMap
  /\ stats = InitialStats
  /\ result = NoResult
  /\ lastCall = Call("none", "none", 0, 0)
  /\ calls = 0
  /\ pushed = 0
  /\ InitCollector
  /\ InitFilters

\* the observations come without a timestamp, from a source that is in the
\* table and, among the first MaxInserts of them, from one that is not
NextWeights ==
  \/ \E d \in {PriceData(1, 3, 0, "okx")}
               \cup (IF pushed < MaxInserts THEN {PriceData(2, 0, 0, "mock")} ELSE {}) :
       pushed < MaxWeightInserts /\ addPriceData(AggToken, d)
  \/ sourceWeights = InitialSourceWeights /\ SetSourceWeight("okx", 2)
  \/ CalculateWeightedAverage(AggToken)

SpecWeights == InitWeights /\ [][NextWeights]_vars

\* the result is the weighted mean of the survivors of the filter over the
\* last ten observations, with the weights the observations carry
C32_Mean ==
  (result.op = "calculateWeightedAverage" /\ result.weightedAverage.ok) =>
    LET history == HistoryOf(priceHistory, lastCall.token)
        recentData == IF Len(history) <= 10 THEN history
                      ELSE SubSeq(history, Len(history) - 9, Len(history))
        cleanData == removeOutliers(recentData, config)
    IN  /\ result.weightedAverage.dataPoints = Len(cleanData)
        /\ result.weightedAverage.dataPoints <= 10
        /\ result.weightedAverage.price =
             DivToPrice(SeqSum([i \in DOMAIN cleanData |-> cleanData[i].price * cleanData[i].weight]),
                        SeqSum([i \in DOMAIN cleanData |-> cleanData[i].weight]))

\* an insert gives its observation the weight the table has for its source at
\* that moment, 0.5 when the table has none, and no step changes the weight
\* of an observation that stays in the store
C32_WeightAtInsert ==
  \A token \in DOMAIN priceHistory' :
    \A i \in DOMAIN priceHistory'[token] :
      LET entry == priceHistory'[token][i]
      IN  IF entry.seq > pushed
          THEN entry.weight = IF entry.source \in DOMAIN sourceWeights
                              THEN sourceWeights[entry.source] ELSE 5
          ELSE \E j \in DOMAIN HistoryOf(priceHistory, token) :
                 priceHistory[token][j] = entry

-----------------------------------------------------------------------------
(* The lifecycle of the collector, in SpecCollector.  A call of            *)
(* startCollection on a running collector and a call of stopCollection on  *)
(* a stopped one return at their first test: they are no step.             *)

\* at most one interval timer is armed, and isCollecting tells whether one is
C33_OneTimer ==
  /\ collectInterval.armed \in {0, 1}
  /\ isCollecting <=> collectInterval.armed = 1
  /\ isCollecting <=> collectInterval.active

\* Stopped -> Running arms the timer and starts a run, Running -> Stopped
\* clears it and starts none, and on a running collector only the timer
\* starts a run
C33_Transitions ==
  /\ (~isCollecting /\ isCollecting') =>
       /\ collectInterval'.armed = 1
       /\ collectInterval'.due = now + CollectorConfig.collectInterval
       /\ Len(ticks') = Len(ticks) + 1
  /\ (isCollecting /\ ~isCollecting') =>
       /\ collectInterval'.armed = 0
       /\ ticks' = ticks /\ requests' = requests
  /\ (isCollecting /\ Len(ticks') > Len(ticks)) =>
       /\ collectInterval.due = now
       /\ collectInterval'.armed = 1
       /\ isCollecting'

\* C33: startCollection on a running collector and stopCollection on a
\* stopped one are no-ops; for any sequence of start and stop calls at most
\* one interval timer is armed and isCollecting is true exactly when a timer
\* is armed.
C33_Lifecycle == [](C33_OneTimer) /\ [][C33_Transitions]_vars

\* the collector was started, stopped and started again: it is running with
\* one timer
C33_Witness ==
  /\ isCollecting
  /\ Len(ticks) = 2
  /\ collectInterval.armed = 1
  /\ ticks[2].started < ticks[1].started + CollectorConfig.collectInterval
  /\ collectInterval.due = ticks[2].started + CollectorConfig.collectInterval

-----------------------------------------------------------------------------
(* Termination of a run of collectAllData.  The collector is started once  *)
(* and stopped before its timer is due; every HTTP call returns or fails,  *)
(* every backoff timer fires, and the clock goes on while a request sleeps. *)

NextTickFair ==
  \/ ticks = <<>> /\ StartCollection
  \/ StopCollection
  \/ \E r \in DOMAIN requests : \E body \in AdapterBodies(requests[r].source) :
       FetchSucceeds(r, body)
  \/ \E r \in DOMAIN requests : FetchFails(r)
  \/ \E r \in DOMAIN requests : RetryAfterBackoff(r)
  \/ (now < StartTime + MaxCollectTime \/ Pending # {}) /\ PassTime

SpecTickFair ==
  /\ InitCollecting
  /\ [][NextTickFair]_vars
  /\ WF_vars(StopCollection)
  /\ WF_vars(\E r \in DOMAIN requests :
               \/ \E body \in AdapterBodies(requests[r].source) : FetchSucceeds(r, body)
               \/ FetchFails(r))
  /\ WF_vars(\E r \in DOMAIN requests : RetryAfterBackoff(r))
  /\ WF_vars(Pending # {} /\ PassTime)

\* no request is in an attempt beyond retryAttempts
C34_Attempts ==
  \A r \in DOMAIN requests : requests[r].attempt <= CollectorConfig.retryAttempts

\* the counters change in the step that ends a run, and only then, by the
\* counts of that run
C34_CountsOnce ==
  LET ended == {k \in DOMAIN ticks : ticks[k].running /\ ~ticks'[k].running}
  IN  IF ended = {}
      THEN collectorStats' = collectorStats
      ELSE \E k \in ended :
             /\ ended = {k}
             /\ collectorStats'.totalRequests
                  = collectorStats.totalRequests + Cardinality(RequestsOf(requests', k))
             /\ collectorStats'.successfulRequests = collectorStats.successfulRequests
                  + Cardinality({r \in RequestsOf(requests', k) : requests'[r].phase = "fulfilled"})
             /\ collectorStats'.failedRequests = collectorStats.failedRequests
                  + Cardinality({r \in RequestsOf(requests', k) : requests'[r].phase = "rejected"})
             /\ collectorStats'.lastCollection = now

\* a run that has started ends with all its requests settled and counted
C34_Completes ==
  (ticks # <<>>) ~>
    (/\ ticks # <<>>
     /\ ~ticks[1].running
     /\ \A r \in DOMAIN requests : requests[r].phase \in {"fulfilled", "rejected"}
     /\ collectorStats.totalRequests = Len(requests))

-----------------------------------------------------------------------------
(* The reset hooks over a store of two pairs *)

\* observations of two pairs are inserted, the pairs are cleared one by one
\* or together, and VWAP and TWAP are asked for
NextClear ==
  \/ \E token \in {"SOL/USDC", "BTC/USDT"} :
       \E d \in {PriceData(1, 3, 0, "okx"), PriceData(2, 0, 0, "mock")} :
         pushed < MaxInserts /\ addPriceData(token, d)
  \/ \E token \in {"SOL/USDC", "BTC/USDT"} : ClearTokenData(token)
  \/ ClearAllData
  \/ \E token \in {"SOL/USDC", "BTC/USDT"} : CalculateVWAP(token, 0)
  \/ \E token \in {"SOL/USDC", "BTC/USDT"} : CalculateTWAP(token, 0)

SpecClear == Init /\ [][NextClear]_vars

\* what a step of clearTokenData and a step of clearAllData change
C35_Frame ==
  /\ (lastCall'.op = "clearTokenData") =>
       /\ DOMAIN priceHistory' = DOMAIN priceHistory \ {lastCall'.token}
       /\ DOMAIN volumeHistory' = DOMAIN volumeHistory \ {lastCall'.token}
       /\ \A other \in DOMAIN priceHistory' : priceHistory'[other] = priceHistory[other]
       /\ \A other \in DOMAIN volumeHistory' : volumeHistory'[other] = volumeHistory[other]
       /\ stats' = stats
  /\ (lastCall'.op = "clearAllData") =>
       /\ DOMAIN priceHistory' = {}
       /\ DOMAIN volumeHistory' = {}
       /\ stats'.totalPricesProcessed = 0
       /\ stats'.outliersDetected = 0
       /\ stats'.vwapCalculations = 0
       /\ stats'.twapCalculations = 0

\* on a pair that has no sequences, cleared or never inserted, calculateVWAP
\* and calculateTWAP fail as on a pair that never received data
C35_AsNeverInserted ==
  /\ (result.op = "calculateVWAP" /\ lastCall.token \notin DOMAIN priceHistory) =>
       /\ ~result.vwap.ok
       /\ result.vwap.error = "No volume data available"
       /\ result.vwap = calculateVWAP(<<>>, now, lastCall.vwapWindow, config)
  /\ (result.op = "calculateTWAP" /\ lastCall.token \notin DOMAIN priceHistory) =>
       /\ ~result.twap.ok
       /\ result.twap.error = "No price data available"
       /\ result.twap = calculateTWAP(<<>>, now, lastCall.twapWindow, config)

\* C35: clearTokenData(P) removes P's price and volume sequences and leaves
\* every other pair's sequences and all counters unchanged; clearAllData
\* removes every pair's sequences and resets all counters to zero; after
\* either, calculateVWAP and calculateTWAP on a cleared pair fail as for a
\* pair that never received data.
C35_Clear == [](C35_AsNeverInserted) /\ [][C35_Frame]_vars

\* calculateVWAP on a pair that held two observations and was cleared, while
\* the other pair still holds its observation and the counters count three
C35_Witness ==
  /\ result.op = "calculateVWAP"
  /\ lastCall.token = "SOL/USDC"
  /\ "SOL/USDC" \notin DOMAIN priceHistory
  /\ "SOL/USDC" \notin DOMAIN volumeHistory
  /\ "BTC/USDT" \in DOMAIN volumeHistory
  /\ Len(volumeHistory["BTC/USDT"]) = 1
  /\ volumeHistory["BTC/USDT"][1].seq = 2
  /\ pushed = 3
  /\ stats.totalPricesProcessed = 3


\* ---- The age of the observations a query uses, in Spec ----

\* a query that succeeds computes its price from observations of the pair
\* that are not older than maxAge at the instant of the query
C36_Fresh(used) ==
  \A i \in DOMAIN used : now - used[i].timestamp <= config.maxAge

C37_NonNegativeTimeWeights ==
  result.op \in {"calculateTWAP", "getAggregatedPrice"} =>
    LET relevantData == TWAPRelevant(HistoryOf(priceHistory, lastCall.token), now,
                          Window(lastCall.twapWindow, config.twapWindow))
        cleanData == removeOutliers(relevantData, config)
    IN  Len(relevantData) >= config.minDataPoints =>
          \A i \in DOMAIN cleanData : TimeWeight(cleanData, i, now) >= 0


\* ---- The outlier filters never remove every data point, in SpecAgg ----

\* the configured thresholds, and the least ones of the claim: a z-score
\* threshold of 1 and an IQR multiplier of 0
C38_Thresholds ==
  { config,
    [config EXCEPT !.zScoreNum = 1, !.zScoreDen = 1, !.iqrNum = 0, !.iqrDen = 1] }

\* the arrays the three calculations hand to removeOutliers in this state
C38_FilterInputs ==
  LET prices == HistoryOf(priceHistory, AggToken)
      volumes == HistoryOf(volumeHistory, AggToken)
  IN  {LastN(prices, 10)}
        \cup {TWAPRelevant(prices, now, Window(w, config.twapWindow)) : w \in Windows}
        \cup {VWAPRelevant(volumes, now, Window(w, config.vwapWindow), config) : w \in Windows}

\* C38: with zScoreThreshold >= 1 and iqrMultiplier >= 0 (the defaults 2.5
\* and 1.5 included) the outlier filtering of a non-empty array never removes
\* every element: no calculation fails with 'No valid data after outlier
\* removal', and getAggregatedPrice returns a recommendedPrice that is no
\* error whenever the pair has a stored price observation
C38_NeverAllOutliers ==
  /\ \A cfg \in C38_Thresholds : \A data \in C38_FilterInputs :
       data # <<>> =>
         /\ removeOutliersZScore(data, Prices(data), cfg.zScoreNum, cfg.zScoreDen) # <<>>
         /\ removeOutliersIQR(data, cfg.iqrNum, cfg.iqrDen) # <<>>
         /\ removeOutliers(data, cfg) # <<>>
  /\ \A r \in {result.vwap, result.twap, result.weightedAverage} :
       r.error # "No valid data after outlier removal"
  /\ (result.op = "getAggregatedPrice"
        /\ HistoryOf(priceHistory, lastCall.token) # <<>>) =>
       /\ result.weightedAverage.ok
       /\ result.recommendedPrice.type # "error"

\* getAggregatedPrice has returned a recommendation for a pair whose price
\* sequence lost an observation to the filters and kept the others
C38_Witness ==
  /\ result.op = "getAggregatedPrice"
  /\ result.recommendedPrice.type # "error"
  /\ result.weightedAverage.ok
  /\ result.weightedAverage.removed > 0
  /\ result.weightedAverage.dataPoints > 0


-----------------------------------------------------------------------------
(* The collector with manual calls of collectTokenData beside its runs of  *)
(* collectAllData.  The promises of the k-th manual call carry the number  *)
(* -k where those of a run carry the number of the run.                    *)

\* the calls of collectTokenData made so far
ManualCalls == {0 - requests[r].tick : r \in {q \in DOMAIN requests : requests[q].tick < 0}}

\* { successful, failed, total: promises.length } of the k-th call, once
\* Promise.allSettled has resolved
collectTokenDataReturn(k) ==
  LET mine == RequestsOf(requests, 0 - k)
  IN  [ successful |-> Cardinality({r \in mine : requests[r].phase = "fulfilled"}),
        failed |-> Cardinality({r \in mine : requests[r].phase = "rejected"}),
        total |-> Cardinality(mine) ]

\* a collectTokenData that adds its promises to the counters as it starts
CollectTokenDataCounting(token) ==
  /\ \E reqs \in {requests \o TokenRequests(0 - (Cardinality(ManualCalls) + 1), token, now)} :
     \E st \in {MockStored(Store, <<token>>, now)} :
       /\ requests' = reqs
       /\ collectorStats' = [collectorStats EXCEPT !.totalRequests = @ + Len(reqs) - Len(requests)]
       /\ priceHistory' = st.priceHistory
       /\ volumeHistory' = st.volumeHistory
       /\ stats' = st.stats
       /\ pushed' = st.pushed
  /\ UNCHANGED <<config, sourceWeights, now, result, lastCall, calls>>
  /\ UNCHANGED <<isCollecting, collectInterval, ticks, tokenMappings>>
  /\ UNCHANGED filterVars

\* collectTokenData(token) up to its await
CollectTokenData(token) ==
  /\ \E reqs \in {requests \o TokenRequests(0 - (Cardinality(ManualCalls) + 1), token, now)} :
     \E st \in {MockStored(Store, <<token>>, now)} :
       /\ requests' = reqs
       /\ collectorStats' = collectorStats
       /\ priceHistory' = st.priceHistory
       /\ volumeHistory' = st.volumeHistory
       /\ stats' = st.stats
       /\ pushed' = st.pushed
  /\ UNCHANGED <<config, sourceWeights, now, result, lastCall, calls>>
  /\ UNCHANGED <<isCollecting, collectInterval, ticks, tokenMappings>>
  /\ UNCHANGED filterVars

\* the runs and the manual calls together are at most MaxTicks
NextManual ==
  \/ Len(ticks) + Cardinality(ManualCalls) < MaxTicks /\ StartCollection
  \/ StopCollection
  \/ Len(ticks) + Cardinality(ManualCalls) < MaxTicks /\ IntervalFires
  \/ \E token \in {"SOL/USDC"} :
       Len(ticks) + Cardinality(ManualCalls) < MaxTicks /\ CollectTokenData(token)
  \/ \E r \in DOMAIN requests : FetchSucceeds(r, "ticker")
  \/ FailedAttempts < MaxFailures /\ \E r \in DOMAIN requests : FetchFails(r)
  \/ \E r \in DOMAIN requests : RetryAfterBackoff(r)
  \/ now < StartTime + MaxCollectTime /\ Pending # {} /\ PassTime

SpecManual == InitCollecting /\ [][NextManual]_vars

\* the counters of the collector add up
C39_CountersAddUp ==
  collectorStats.totalRequests
    = collectorStats.successfulRequests + collectorStats.failedRequests

\* a step that starts a call of collectTokenData, or settles one of its
\* promises, leaves the counters as they were
C39_ManualFrame ==
  (\/ Len(requests') > Len(requests) /\ requests'[Len(requests')].tick < 0
   \/ \E r \in DOMAIN requests : requests[r].tick < 0 /\ requests'[r] # requests[r])
    => collectorStats' = collectorStats

\* what a call of collectTokenData returns adds up to its promises
C39_ManualReturn ==
  \A k \in ManualCalls :
    AllSettled(requests, 0 - k) =>
      /\ collectTokenDataReturn(k).successful + collectTokenDataReturn(k).failed
           = collectTokenDataReturn(k).total
      /\ collectTokenDataReturn(k).total = Len(TokenRequests(0 - k, CollectorTokens[1], now))

\* C39: in every reachable state of the collector totalRequests =
\* successfulRequests + failedRequests, for any interleaving of runs, also
\* overlapping ones, and manual calls of collectTokenData; collectTokenData
\* leaves these counters unchanged and returns counts with
\* successful + failed = total
C39_Counters ==
  [](C39_CountersAddUp /\ C39_ManualReturn) /\ [][C39_ManualFrame]_vars


\* a run has ended and counted its two promises, both fulfilled; a call of
\* collectTokenData has returned 1 successful, 1 failed of 2, and the
\* counters show the two promises of the run only
C39_Witness ==
  /\ Len(ticks) = 1
  /\ ~ticks[1].running
  /\ ManualCalls = {1}
  /\ AllSettled(requests, 0 - 1)
  /\ collectTokenDataReturn(1) = [successful |-> 1, failed |-> 1, total |-> 2]
  /\ collectorStats.totalRequests = 2
  /\ collectorStats.successfulRequests = 2
  /\ collectorStats.failedRequests = 0


\* ---- The volume sequence beside the price sequence, in Spec ----

\* C40: in every reachable state every observation in a pair's volume
\* sequence is also in the pair's price sequence (the volume sequence is a
\* sub-sequence of the price sequence), so calculateVWAP never uses an
\* observation that is no longer in the price history
C40_VolumeWithinPrices ==
  \A token \in DOMAIN volumeHistory :
    \A i \in DOMAIN volumeHistory[token] :
      \E j \in DOMAIN HistoryOf(priceHistory, token) :
        priceHistory[token][j].seq = volumeHistory[token][i].seq

====
